---- MODULE Spec2Model ----
(***************************************************************************)
(* A model of the load/merge engine of the events ETL: the loader's        *)
(* DatabaseService (src/src/loader/service.py) running against one shared  *)
(* PostgreSQL database (READ COMMITTED), with the unique indexes of        *)
(* src/src/shared/db/database.py in place.                                 *)
(*                                                                         *)
(* The database is modelled at the level of SQL statements: committed      *)
(* tables, and per session the rows it has inserted or updated and not yet *)
(* committed.  A statement that must wait for another session's            *)
(* transaction (a unique-index conflict with an uncommitted row, a row     *)
(* lock) is an action that is not enabled until that transaction ends.     *)
(***************************************************************************)
EXTENDS Integers, Sequences, FiniteSets, TLC

(***************************************************************************)
(* Values                                                                  *)
(***************************************************************************)
\* SQL NULL, Python None.
NULL == "<null>"
\* A keyword argument the caller of a DTO constructor did not pass.
UNSET == "<unset>"
\* A nullable timestamp column holding NULL.
NoTime == 0 - 1
\* Python truthiness of an Optional[str].
TruthyStr(v) == v # NULL /\ v # ""
\* Python truthiness of an Optional[float], floats written as decimal strings.
TruthyFloat(v) == v # NULL /\ v # "0.0"

(***************************************************************************)
(* Bounds of the model                                                     *)
(***************************************************************************)
\* Loader instances running concurrently against the database.
NInst == 2
\* Upsert calls one instance makes in the call-level specifications.
MaxCalls == 2
\* Statements that fail for a reason outside the program (lost connection,
\* deadlock victim, client-side statement error) in one behaviour.
MaxFaults == 1
\* Statements that fail from outside in a behaviour of the retry wrapper.
MaxRetryFaults == 3
\* Statements that fail from outside while two loaders retry.
MaxJitterFaults == 2
\* Calls of an embedding generator that do not set the embedding, in a run
\* of the backfill.
MaxGenerateFaults == 2
\* The wall clock stops at MaxNow half days.
MaxNow == 63

Inst == 1..NInst

Tables == {"genres", "artists", "venues", "events", "artist_relations"}

VARIABLES
    mode,      \* which scenario the behaviour runs (fixed by Init)
    now,       \* the wall clock, in half days
    db,        \* the committed tables: table name -> set of rows
    tx,        \* per instance: its open session's uncommitted writes
    nextId,    \* the id sequence
    faults,    \* statements failed from outside so far
    fr,        \* per instance: the frame of the upsert method it is in
    hs,        \* per instance: the call-level driver's state
    hist       \* the calls that returned and whose transaction committed

vars == <<mode, now, db, tx, nextId, faults, fr, hs, hist>>

(***************************************************************************)
(* The database: sessions, visibility, locks                               *)
(***************************************************************************)
EmptyTables == [t \in Tables |-> {}]

\* AsyncSession as created by db.session(): no writes yet.
NoSession == [open |-> FALSE, aborted |-> FALSE, ins |-> EmptyTables, upd |-> EmptyTables]
NewSession == [NoSession EXCEPT !.open = TRUE]

Ids(rows) == {r.id : r \in rows}

\* What a statement of instance i sees of table t under READ COMMITTED: the
\* committed rows, with its own uncommitted updates and inserts.
View(i, t) ==
    {r \in db[t] : r.id \notin Ids(tx[i].upd[t])} \cup tx[i].upd[t] \cup tx[i].ins[t]

\* Rows of table t inserted by other sessions and not yet committed.
OthersIns(i, t) == UNION {tx[j].ins[t] : j \in Inst \ {i}}

\* Row id of table t is locked by another session's uncommitted UPDATE.
Locked(i, t, id) == \E j \in Inst \ {i} : id \in Ids(tx[j].upd[t])

\* tx after instance i inserts row into table t.
TxIns(i, t, row) == [tx EXCEPT ![i].ins[t] = @ \cup {row}]

\* tx after instance i updates a row it sees to newrow (same id).
TxUpd(i, t, newrow) ==
    IF newrow.id \in Ids(tx[i].ins[t])
    THEN [tx EXCEPT ![i].ins[t] = {r \in @ : r.id # newrow.id} \cup {newrow}]
    ELSE [tx EXCEPT ![i].upd[t] = {r \in @ : r.id # newrow.id} \cup {newrow}]

\* A failed statement leaves the transaction aborted: every later statement
\* of it fails until ROLLBACK.
TxAbort(i) == [tx EXCEPT ![i].aborted = TRUE]

\* COMMIT: the session's view becomes the committed state.
Committed(i) == [t \in Tables |-> View(i, t)]

\* A rollback that keeps what the session wrote.
RollbackCommits(i) == Committed(i)

\* ROLLBACK: the committed state stays as it is, without the session's rows.
Rolledback(i) == db


(***************************************************************************)
(* The unique indexes                                                      *)
(***************************************************************************)
\* Genre.name is declared unique=True.
GenresNameUnique == TRUE

\* CREATE UNIQUE INDEX idx_artists_name ON artists(name).
ArtistsNameUnique == TRUE

\* CREATE UNIQUE INDEX idx_venues_name_address ON venues(name, full_address).
VenuesKeyUnique == TRUE

\* The events table without the index on the href.
EventsHrefPlain == FALSE

\* CREATE UNIQUE INDEX idx_events_href ON events(wwoz_event_href).
EventsHrefUnique == TRUE

\* CREATE UNIQUE INDEX idx_artist_relations_unique
\*   ON artist_relations(artist_id, related_artist_id).
RelationsUnique == TRUE

\* Table t has its unique index.
Indexed(t) ==
    CASE t = "genres" -> GenresNameUnique
      [] t = "artists" -> ArtistsNameUnique
      [] t = "venues" -> VenuesKeyUnique
      [] t = "events" -> EventsHrefUnique
      [] OTHER -> RelationsUnique

\* The columns of the unique index of table t, in row r.
KeyOf(t, r) ==
    CASE t = "genres" -> <<r.name>>
      [] t = "artists" -> <<r.name>>
      [] t = "venues" -> <<r.name, r.full_address>>
      [] t = "events" -> <<r.wwoz_event_href>>
      [] OTHER -> <<ToString(r.artist_id), ToString(r.related_artist_id)>>

\* Two key values the unique index holds equal: NULLs are distinct.
SameKey(a, b) == a # NULL /\ a = b

\* The unique index of t does not admit newrow beside row r.
Conflicting(t, r, newrow) ==
    /\ Indexed(t)
    /\ \A c \in 1..Len(KeyOf(t, r)) : SameKey(KeyOf(t, r)[c], KeyOf(t, newrow)[c])

(***************************************************************************)
(* Statements                                                              *)
(***************************************************************************)
\* Error texts, as the driver words them.
UniqueViolation == "duplicate key value violates unique constraint"
InFailedTransaction == "current transaction is aborted, commands ignored until end of transaction block"
NoResultFound == "No row was found when one was required"
MultipleResultsFound == "Multiple rows were found when one or none was required"
DeadlockDetected == "deadlock detected"
LockTimeout == "canceling statement due to lock timeout"
LockTimeoutTitled == "Lock Timeout"
ConcurrentUpdate == "could not serialize access due to concurrent update"
StatementError == "statement error"
NoConflictTarget == "there is no unique or exclusion constraint matching the ON CONFLICT specification"

\* The outcome of a statement: it waits, or it raises exc, or it yields the
\* id of the row it wrote (0: no row), with the new session state.
Wait == [wait |-> TRUE, exc |-> NULL, id |-> 0, tx |-> tx, nextId |-> nextId]
Done(id, tx2, n2) == [wait |-> FALSE, exc |-> NULL, id |-> id, tx |-> tx2, nextId |-> n2]
Fail(e, tx2) == [wait |-> FALSE, exc |-> e, id |-> 0, tx |-> tx2, nextId |-> nextId]

\* A statement failing for a reason outside the program.  A deadlock is
\* reported by the server and aborts the transaction; a statement error is
\* raised by the client before the statement is sent.
\* The retries of a batch are explored with more failures, of more kinds:
\* the server's lock timeout and serialization failure, and a lock timeout
\* worded in title case.
\* Two loaders racing for a row fail by each other's statements only; two
\* loaders retrying are explored with a lock timeout for each.
FaultBudget ==
    CASE mode = "retry" -> MaxRetryFaults
      [] mode = "jitter" -> MaxJitterFaults
      [] mode = "race" -> 0
      [] OTHER -> MaxFaults
FaultKinds ==
    CASE mode = "retry" ->
           {DeadlockDetected, LockTimeout, LockTimeoutTitled, ConcurrentUpdate, StatementError}
      [] mode = "jitter" -> {LockTimeout}
      [] OTHER -> {DeadlockDetected, StatementError}
FaultChoices == {"none"} \cup (IF faults < FaultBudget THEN FaultKinds ELSE {})
Fault(i, f) == IF f = StatementError THEN Fail(f, tx) ELSE Fail(f, TxAbort(i))

\* INSERT INTO t VALUES newrow [ON CONFLICT ... policy].  The rows that
\* conflict with newrow are those the unique index of t holds equal to it.
\*   - a visible conflicting row: DO NOTHING yields no row; DO UPDATE
\*     locks the row (waits for its lock) and writes merge[row]; a plain
\*     INSERT raises a unique violation;
\*   - a conflicting row another transaction inserted and has not
\*     committed: the statement waits for that transaction;
\*   - otherwise the row is inserted with the next id of the sequence.
\* Without the unique index nothing conflicts, and an ON CONFLICT clause
\* naming the columns is rejected.
Insert(i, t, newrow, policy, merge) ==
    LET mine == {r \in View(i, t) : Conflicting(t, r, newrow)}
        theirs == {r \in OthersIns(i, t) : Conflicting(t, r, newrow)}
    IN  IF ~Indexed(t) /\ policy \in {"DO NOTHING", "DO UPDATE"}
        THEN Fail(NoConflictTarget, TxAbort(i))
        ELSE IF mine # {}
        THEN CASE policy = "DO NOTHING" -> Done(0, tx, nextId)
               [] policy = "DO UPDATE" ->
                    LET old == CHOOSE r \in mine : TRUE
                    IN  IF Locked(i, t, old.id) THEN Wait
                        ELSE Done(old.id, TxUpd(i, t, merge[old]), nextId)
               [] OTHER -> Fail(UniqueViolation, TxAbort(i))
        ELSE IF theirs # {} THEN Wait
        ELSE Done(nextId, TxIns(i, t, [newrow EXCEPT !.id = nextId]), nextId + 1)

\* The rows of table t a SELECT of instance i sees, after a statement left
\* the sessions as tx2.
Rows(tx2, i, t) ==
    {r \in db[t] : r.id \notin Ids(tx2[i].upd[t])} \cup tx2[i].upd[t] \cup tx2[i].ins[t]

\* A row merged with nothing.
Same(rows) == [r \in rows |-> r]

(***************************************************************************)
(* Frames of the upsert methods                                            *)
(***************************************************************************)
\* op: the method; pc: where it is; arg: its arguments; ret: the id of the
\* object it returned; state: that object's ORM state; exc: the exception
\* caught or raised; path: the branch that returned; geo: calls of the
\* Geocoding Provider; faulted: a statement of the call failed from outside;
\* existed: a row with the key was visible when the call began; loc: the
\* method's locals; raw: the fields the caller passed to the dataclass;
\* embed: the call of the Embedding Provider that failed (0: none); fault:
\* the error of the statement that failed from outside.
IdleFrame ==
    [op |-> "none", pc |-> "idle", arg |-> <<>>, ret |-> 0, state |-> "none",
     exc |-> NULL, path |-> "none", geo |-> 0, faulted |-> FALSE, existed |-> FALSE,
     loc |-> <<>>, raw |-> <<>>, embed |-> 0, fault |-> "none"]

\* return obj: an object loaded by a SELECT or flushed is persistent.
Ret(f, id, path) == [f EXCEPT !.pc = "ret", !.ret = id, !.state = "persistent", !.path = path]
\* an exception leaves the method.
Raise(f, e) == [f EXCEPT !.pc = "raised", !.exc = e]

(***************************************************************************)
(* get_or_create_genre                                                     *)
(***************************************************************************)
\* A plain INSERT, without an ON CONFLICT clause.
GenrePlainInsert == "NONE"
GenreOnConflict == "DO NOTHING"

GenreRow(name) == [id |-> 0, name |-> name]

\* try: INSERT INTO genres ... ON CONFLICT (name) DO NOTHING RETURNING;
\* then the SELECT by id (row returned) or by name (no row returned).
GenreInsert(i) ==
    /\ fr[i].pc = "g_insert"
    /\ \E f \in FaultChoices :
         LET name == fr[i].arg.name
             r == IF f = "none"
                  THEN Insert(i, "genres", GenreRow(name), GenreOnConflict,
                              Same(View(i, "genres")))
                  ELSE Fault(i, f)
             byName == {g \in Rows(r.tx, i, "genres") : g.name = name}
         IN  /\ ~r.wait
             /\ tx' = r.tx
             /\ nextId' = r.nextId
             /\ faults' = IF f = "none" THEN faults ELSE faults + 1
             /\ fr' = [fr EXCEPT ![i] =
                   IF r.exc # NULL
                   THEN [@ EXCEPT !.pc = "g_except", !.exc = r.exc, !.faulted = (f # "none"),
                                  !.fault = f]
                   ELSE IF r.id # 0 THEN Ret(@, r.id, "insert")
                   ELSE IF Cardinality(byName) = 1
                        THEN Ret(@, (CHOOSE g \in byName : TRUE).id, "refetch")
                   ELSE [@ EXCEPT !.pc = "g_except",
                                  !.exc = IF byName = {} THEN NoResultFound
                                          ELSE MultipleResultsFound]]
    /\ UNCHANGED <<mode, now, db, hs, hist>>

\* except: the fallback SELECT by name (scalar_one_or_none).
GenreExcept(i) ==
    /\ fr[i].pc = "g_except"
    /\ LET byName == {g \in Rows(tx, i, "genres") : g.name = fr[i].arg.name}
       IN  fr' = [fr EXCEPT ![i] =
                 IF tx[i].aborted THEN Raise(@, InFailedTransaction)
                 ELSE IF Cardinality(byName) > 1 THEN Raise(@, MultipleResultsFound)
                 ELSE IF byName # {} THEN Ret(@, (CHOOSE g \in byName : TRUE).id, "fallback")
                 ELSE [@ EXCEPT !.pc = "g_flush"]]
    /\ UNCHANGED <<mode, now, db, tx, nextId, faults, hs, hist>>

\* except, no genre found: session.add(Genre(name)); session.flush().
GenreFlush(i) ==
    /\ fr[i].pc = "g_flush"
    /\ LET name == fr[i].arg.name
           r == Insert(i, "genres", GenreRow(name), "NONE", Same(View(i, "genres")))
       IN  /\ ~r.wait
           /\ tx' = r.tx
           /\ nextId' = r.nextId
           /\ fr' = [fr EXCEPT ![i] =
                 IF r.exc # NULL THEN Raise(@, r.exc) ELSE Ret(@, r.id, "created")]
    /\ UNCHANGED <<mode, now, db, faults, hs, hist>>


(***************************************************************************)
(* upsert_artist                                                           *)
(***************************************************************************)
\* The ArtistData dataclass: a field the caller did not pass takes the
\* dataclass's default.
ArtistData(d) ==
    [name |-> d.name,
     description |-> IF d.description = UNSET THEN "lorum ipsum" ELSE d.description,
     wwoz_artist_href |-> IF d.wwoz_artist_href = UNSET THEN "" ELSE d.wwoz_artist_href,
     website |-> IF d.website = UNSET THEN "" ELSE d.website]

\* SQL COALESCE(a, b).
Coalesce(a, b) == IF a # NULL THEN a ELSE b

ArtistPlainInsert == "NONE"
ArtistOnConflict == "DO UPDATE"

ArtistRow(d) ==
    [id |-> 0, name |-> d.name, wwoz_artist_href |-> d.wwoz_artist_href,
     description |-> d.description, website |-> d.website]

\* A full overwrite: SET col = EXCLUDED.col.
ArtistOverwrite(old, d) ==
    [old EXCEPT !.wwoz_artist_href = d.wwoz_artist_href,
                !.description = d.description,
                !.website = d.website]

\* ON CONFLICT (name) DO UPDATE SET col = COALESCE(EXCLUDED.col, artists.col).
ArtistMerge(old, d) ==
    [old EXCEPT !.wwoz_artist_href = Coalesce(d.wwoz_artist_href, old.wwoz_artist_href),
                !.description = Coalesce(d.description, old.description),
                !.website = Coalesce(d.website, old.website)]

\* try: INSERT INTO artists ... ON CONFLICT (name) DO UPDATE ... RETURNING;
\* then the SELECT by id (row returned) or by name (no row returned).
ArtistInsert(i) ==
    /\ fr[i].pc = "a_insert"
    /\ \E f \in FaultChoices :
         LET d == fr[i].arg
             r == IF f = "none"
                  THEN Insert(i, "artists", ArtistRow(d), ArtistOnConflict,
                              [a \in View(i, "artists") |-> ArtistMerge(a, d)])
                  ELSE Fault(i, f)
             byName == {a \in Rows(r.tx, i, "artists") : a.name = d.name}
         IN  /\ ~r.wait
             /\ tx' = r.tx
             /\ nextId' = r.nextId
             /\ faults' = IF f = "none" THEN faults ELSE faults + 1
             /\ fr' = [fr EXCEPT ![i] =
                   IF r.exc # NULL
                   THEN [@ EXCEPT !.pc = "a_except", !.exc = r.exc, !.faulted = (f # "none"),
                                  !.fault = f]
                   ELSE IF r.id # 0
                        THEN Ret(@, r.id, IF r.nextId # nextId THEN "insert" ELSE "update")
                   ELSE IF Cardinality(byName) = 1
                        THEN Ret(@, (CHOOSE a \in byName : TRUE).id, "refetch")
                   ELSE [@ EXCEPT !.pc = "a_except",
                                  !.exc = IF byName = {} THEN NoResultFound
                                          ELSE MultipleResultsFound]]
    /\ UNCHANGED <<mode, now, db, hs, hist>>

\* except: the fallback SELECT by name (scalar_one_or_none).
ArtistExcept(i) ==
    /\ fr[i].pc = "a_except"
    /\ LET byName == {a \in Rows(tx, i, "artists") : a.name = fr[i].arg.name}
       IN  fr' = [fr EXCEPT ![i] =
                 IF tx[i].aborted THEN Raise(@, InFailedTransaction)
                 ELSE IF Cardinality(byName) > 1 THEN Raise(@, MultipleResultsFound)
                 ELSE IF byName # {} THEN Ret(@, (CHOOSE a \in byName : TRUE).id, "fallback")
                 ELSE [@ EXCEPT !.pc = "a_flush"]]
    /\ UNCHANGED <<mode, now, db, tx, nextId, faults, hs, hist>>

\* except, no artist found: session.add(Artist(...)); session.flush().
ArtistFlush(i) ==
    /\ fr[i].pc = "a_flush"
    /\ LET d == fr[i].arg
           r == Insert(i, "artists", ArtistRow(d), "NONE", Same(View(i, "artists")))
       IN  /\ ~r.wait
           /\ tx' = r.tx
           /\ nextId' = r.nextId
           /\ fr' = [fr EXCEPT ![i] =
                 IF r.exc # NULL THEN Raise(@, r.exc) ELSE Ret(@, r.id, "created")]
    /\ UNCHANGED <<mode, now, db, faults, hs, hist>>


(***************************************************************************)
(* Strings                                                                 *)
(***************************************************************************)
UpperChars == "ABCDEFGHIJKLMNOPQRSTUVWXYZ"
LowerChars == "abcdefghijklmnopqrstuvwxyz"

LowerChar(c) ==
    IF \E k \in 1..Len(UpperChars) : SubSeq(UpperChars, k, k) = c
    THEN LET k == CHOOSE k \in 1..Len(UpperChars) : SubSeq(UpperChars, k, k) = c
         IN  SubSeq(LowerChars, k, k)
    ELSE c

\* str.lower(): every character lowered, the halves of s in turn.
RECURSIVE Lower(_)
Lower(s) ==
    IF Len(s) <= 1 THEN LowerChar(s)
    ELSE LET half == Len(s) \div 2
         IN  Lower(SubSeq(s, 1, half)) \o Lower(SubSeq(s, half + 1, Len(s)))

\* sub in s
Contains(s, sub) ==
    \E k \in 1..(Len(s) - Len(sub) + 1) : SubSeq(s, k, k + Len(sub) - 1) = sub

\* s.strip() == ""
IsBlank(s) == \A k \in 1..Len(s) : SubSeq(s, k, k) \in {" ", "\t", "\n"}

(***************************************************************************)
(* Geocoding Provider                                                      *)
(***************************************************************************)
\* base_configs["default_coords"]
DefaultCoords == [latitude |-> "29.9511", longitude |-> "-90.0715"]
\* Coordinates the provider may answer with.
ProviderCoords == {[latitude |-> "29.9636", longitude |-> "-90.0577"]}

\* os.getenv("GOOGLE_MAPS_API_KEY"): unset, empty, or a key.
ApiKeys == {NULL, "", "key"}

\* What the request to the provider does: it throws (no connection, a body
\* that is not JSON), or it answers with JSON, whose status may be missing
\* and whose results may be empty.
Responses ==
    {[throws |-> TRUE, status |-> NULL, results |-> <<>>]}
    \cup {[throws |-> FALSE, status |-> st, results |-> rs] :
            st \in {"OK", "ZERO_RESULTS", "REQUEST_DENIED", NULL},
            rs \in {<<>>} \cup {<<c>> : c \in ProviderCoords}}

\* return value / raise of geocode_address.
Returned(coords) == [raised |-> FALSE, value |-> coords]
Thrown == [raised |-> TRUE, value |-> DefaultCoords]

\* The body of the try: session.get, response.json(), data["status"],
\* data["results"][0].
GeocodeTry(resp) ==
    IF resp.throws \/ resp.status = NULL THEN Thrown
    ELSE IF resp.status = "OK"
    THEN IF resp.results = <<>> THEN Thrown ELSE Returned(resp.results[1])
    ELSE Returned(DefaultCoords)

\* geocode_address without the except around the request.
GeocodeUncaught(address, key, resp) ==
    IF ~TruthyStr(address) \/ IsBlank(address) \/ Contains(address, ".Streaming")
    THEN Returned(DefaultCoords)
    ELSE IF ~TruthyStr(key) THEN Returned(DefaultCoords)
    ELSE GeocodeTry(resp)

\* geocode_address(address) with the API key configured and the provider
\* answering resp: the default coordinates for an empty, blank or streaming
\* address, without an API key, on a non-OK answer and on an exception;
\* else the provider's coordinates.
GeocodeAddress(address, key, resp) ==
    IF ~TruthyStr(address) \/ IsBlank(address) \/ Contains(address, ".Streaming")
    THEN Returned(DefaultCoords)
    ELSE IF ~TruthyStr(key) THEN Returned(DefaultCoords)
    ELSE IF GeocodeTry(resp).raised THEN Returned(DefaultCoords)
    ELSE GeocodeTry(resp)

\* What geocode_address(address) may return to upsert_venue.
GeocodeResults(address) ==
    {GeocodeAddress(address, key, resp).value : key \in ApiKeys, resp \in Responses}

(***************************************************************************)
(* upsert_venue                                                            *)
(***************************************************************************)
\* The VenueData dataclass and its defaults.
VenueData(d) ==
    [name |-> d.name,
     full_address |-> IF d.full_address = UNSET THEN "" ELSE d.full_address,
     phone_number |-> IF d.phone_number = UNSET THEN "" ELSE d.phone_number,
     thoroughfare |-> "", locality |-> "New Orleans", state |-> "", postal_code |-> "",
     wwoz_venue_href |-> "",
     website |-> IF d.website = UNSET THEN "" ELSE d.website,
     is_active |-> TRUE]

\* Ticks of the clock in a day, and the age in days past which a venue is
\* geocoded again.
HalfDaysPerDay == 2
StaleDays == 30

\* timedelta.days
Days(delta) == delta \div HalfDaysPerDay

\* Every venue geocoded again.
NeedsGeocodingAlways(v) == TRUE
\* Venue.needs_geocoding()
NeedsGeocoding(v) ==
    IF ~TruthyFloat(v.latitude) \/ ~TruthyFloat(v.longitude) THEN TRUE
    ELSE IF v.last_geocoded = NoTime THEN TRUE
    ELSE Days(now - v.last_geocoded) > StaleDays

\* "outdoor" not in name.lower(); "streaming" in name.lower()
\* The rule without the lowercasing.
IsIndoorsCased(name) == ~Contains(name, "outdoor")
IsIndoors(name) == ~Contains(Lower(name), "outdoor")
IsStreaming(name) == Contains(Lower(name), "streaming")

VenuePlainInsert == "NONE"
VenueOnConflict == "DO UPDATE"

VenueRow(d, geo) ==
    [id |-> 0, name |-> d.name, phone_number |-> d.phone_number,
     thoroughfare |-> d.thoroughfare, locality |-> d.locality, state |-> d.state,
     postal_code |-> d.postal_code, full_address |-> d.full_address,
     wwoz_venue_href |-> d.wwoz_venue_href, website |-> d.website,
     is_active |-> d.is_active, latitude |-> geo.latitude, longitude |-> geo.longitude,
     last_geocoded |-> now, is_indoors |-> IsIndoors(d.name),
     is_streaming |-> IsStreaming(d.name)]

\* ON CONFLICT (name, full_address) DO UPDATE SET ...
VenueMerge(old, new) ==
    [old EXCEPT !.phone_number = Coalesce(new.phone_number, old.phone_number),
                !.thoroughfare = Coalesce(new.thoroughfare, old.thoroughfare),
                !.locality = Coalesce(new.locality, old.locality),
                !.state = Coalesce(new.state, old.state),
                !.postal_code = Coalesce(new.postal_code, old.postal_code),
                !.wwoz_venue_href = Coalesce(new.wwoz_venue_href, old.wwoz_venue_href),
                !.website = Coalesce(new.website, old.website),
                !.is_active = new.is_active,
                !.latitude = new.latitude,
                !.longitude = new.longitude,
                !.last_geocoded = new.last_geocoded,
                !.is_indoors = new.is_indoors,
                !.is_streaming = new.is_streaming]

\* filter_by(name=..., full_address=...): a None compares with IS NULL.
VenueMatch(v, d) == v.name = d.name /\ v.full_address = d.full_address

\* try: the SELECT by (name, full_address).  Found: geocode again when
\* needs_geocoding().  Not found: geocode for the INSERT.
VenueLookup(i) ==
    /\ fr[i].pc = "v_lookup"
    /\ \E f \in FaultChoices :
         LET d == fr[i].arg
             found == {v \in Rows(tx, i, "venues") : VenueMatch(v, d)}
             r == IF f = "none" THEN Done(0, tx, nextId) ELSE Fault(i, f)
         IN  /\ tx' = r.tx
             /\ faults' = IF f = "none" THEN faults ELSE faults + 1
             /\ IF r.exc # NULL
                THEN fr' = [fr EXCEPT ![i].pc = "v_except", ![i].exc = r.exc,
                                      ![i].faulted = TRUE, ![i].fault = f]
                ELSE IF Cardinality(found) > 1
                THEN fr' = [fr EXCEPT ![i].pc = "v_except", ![i].exc = MultipleResultsFound]
                ELSE IF found # {}
                THEN LET v == CHOOSE v \in found : TRUE
                     IN  IF NeedsGeocoding(v)
                         THEN \E geo \in GeocodeResults(v.full_address) :
                                fr' = [fr EXCEPT ![i].pc = "v_update", ![i].geo = @ + 1,
                                         ![i].loc = [id |-> v.id, geo |-> geo, at |-> now]]
                         ELSE fr' = [fr EXCEPT ![i] = Ret(@, v.id, "lookup")]
                ELSE \E geo \in GeocodeResults(d.full_address) :
                       fr' = [fr EXCEPT ![i].pc = "v_insert", ![i].geo = @ + 1,
                                        ![i].loc = [id |-> 0, geo |-> geo, at |-> now]]
    /\ UNCHANGED <<mode, now, db, nextId, hs, hist>>

\* The UPDATE of the coordinates of the venue found, flushed before the
\* session's next statement.
VenueUpdate(i) ==
    /\ fr[i].pc = "v_update"
    /\ ~Locked(i, "venues", fr[i].loc.id)
    /\ LET cur == CHOOSE v \in View(i, "venues") : v.id = fr[i].loc.id
           new == [cur EXCEPT !.latitude = fr[i].loc.geo.latitude,
                              !.longitude = fr[i].loc.geo.longitude,
                              !.last_geocoded = fr[i].loc.at]
       IN  /\ tx' = TxUpd(i, "venues", new)
           /\ fr' = [fr EXCEPT ![i] = Ret(@, cur.id, "regeocode")]
    /\ UNCHANGED <<mode, now, db, nextId, faults, hs, hist>>

\* try: INSERT INTO venues ... ON CONFLICT (name, full_address) DO UPDATE ...
\* RETURNING id; then the SELECT by id (row returned) or by key.
VenueInsert(i) ==
    /\ fr[i].pc = "v_insert"
    /\ \E f \in FaultChoices :
         LET d == fr[i].arg
             new == VenueRow(d, fr[i].loc.geo)
             r == IF f = "none"
                  THEN Insert(i, "venues", new, VenueOnConflict,
                              [v \in View(i, "venues") |-> VenueMerge(v, new)])
                  ELSE Fault(i, f)
             byKey == {v \in Rows(r.tx, i, "venues") : VenueMatch(v, d)}
         IN  /\ ~r.wait
             /\ tx' = r.tx
             /\ nextId' = r.nextId
             /\ faults' = IF f = "none" THEN faults ELSE faults + 1
             /\ fr' = [fr EXCEPT ![i] =
                   IF r.exc # NULL
                   THEN [@ EXCEPT !.pc = "v_except", !.exc = r.exc, !.faulted = (f # "none"),
                                  !.fault = f]
                   ELSE IF r.id # 0
                        THEN Ret(@, r.id, IF r.nextId # nextId THEN "insert" ELSE "update")
                   ELSE IF Cardinality(byKey) = 1
                        THEN Ret(@, (CHOOSE v \in byKey : TRUE).id, "refetch")
                   ELSE Raise(@, IF byKey = {} THEN NoResultFound ELSE MultipleResultsFound)]
    /\ UNCHANGED <<mode, now, db, hs, hist>>

\* except: the fallback SELECT; no venue found: geocode for the fallback
\* INSERT.
VenueExcept(i) ==
    /\ fr[i].pc = "v_except"
    /\ LET d == fr[i].arg
           byKey == {v \in Rows(tx, i, "venues") : VenueMatch(v, d)}
       IN  IF tx[i].aborted THEN fr' = [fr EXCEPT ![i] = Raise(@, InFailedTransaction)]
           ELSE IF Cardinality(byKey) > 1
           THEN fr' = [fr EXCEPT ![i] = Raise(@, MultipleResultsFound)]
           ELSE IF byKey # {}
           THEN fr' = [fr EXCEPT ![i] = Ret(@, (CHOOSE v \in byKey : TRUE).id, "fallback")]
           ELSE \E geo \in GeocodeResults(d.full_address) :
                  fr' = [fr EXCEPT ![i].pc = "v_flush", ![i].geo = @ + 1,
                                   ![i].loc = [id |-> 0, geo |-> geo, at |-> now]]
    /\ UNCHANGED <<mode, now, db, tx, nextId, faults, hs, hist>>

\* except, no venue found: session.add(Venue(...)); session.flush().
VenueFlush(i) ==
    /\ fr[i].pc = "v_flush"
    /\ LET d == fr[i].arg
           r == Insert(i, "venues", VenueRow(d, fr[i].loc.geo), "NONE",
                       Same(View(i, "venues")))
       IN  /\ ~r.wait
           /\ tx' = r.tx
           /\ nextId' = r.nextId
           /\ fr' = [fr EXCEPT ![i] =
                 IF r.exc # NULL THEN Raise(@, r.exc) ELSE Ret(@, r.id, "created")]
    /\ UNCHANGED <<mode, now, db, faults, hs, hist>>


(***************************************************************************)
(* upsert_event                                                            *)
(***************************************************************************)
\* The EventData dataclass and its defaults.
EventData(d) ==
    [wwoz_event_href |-> IF d.wwoz_event_href = UNSET THEN "" ELSE d.wwoz_event_href,
     description |-> IF d.description = UNSET THEN "" ELSE d.description,
     event_date |-> d.event_date, artist |-> d.artist, venue |-> d.venue]

EmbeddingFailed == "embedding provider failed"

\* The calls of encode generate_embeddings_for_event makes: the description
\* when there is one, then the combined text.
EncodeCalls(description) == IF TruthyStr(description) THEN 2 ELSE 1

\* generate_embeddings_for_event without its except: the failure of an
\* encode leaves the method, with what was set before it.
EmbeddingsUncaught(description, failAt) ==
    [description_embedding |-> IF TruthyStr(description) /\ failAt # 1 THEN "vector" ELSE NULL,
     event_text_embedding |-> IF failAt = 0 THEN "vector" ELSE NULL,
     raised |-> failAt # 0]

\* generate_embeddings_for_event: failAt is the call of encode that failed
\* (0: none).  The except sets both embeddings to None and raises nothing.
Embeddings(description, failAt) ==
    IF failAt = 0
    THEN [description_embedding |-> IF TruthyStr(description) THEN "vector" ELSE NULL,
          event_text_embedding |-> "vector", raised |-> FALSE]
    ELSE [description_embedding |-> NULL, event_text_embedding |-> NULL, raised |-> FALSE]

\* The call of encode that fails: the Embedding Provider's failure is one of
\* the failures from outside.
EmbedChoices == {0} \cup (IF faults < FaultBudget THEN {1, 2} ELSE {})

\* Event(...) as upsert_event builds it for artist a and venue v.
EventRow(d, a, v, emb) ==
    [id |-> 0, wwoz_event_href |-> d.wwoz_event_href, description |-> d.description,
     artist_id |-> a.id, venue_id |-> v.id, artist_name |-> a.name, venue_name |-> v.name,
     performance_time |-> d.event_date, scrape_time |-> now,
     is_indoors |-> IsIndoors(v.name), is_streaming |-> IsStreaming(v.name),
     description_embedding |-> emb.description_embedding,
     event_text_embedding |-> emb.event_text_embedding]

\* try: if event_data.wwoz_event_href: the SELECT by href.  An event found
\* takes the description when it has none and the call brings one.
EventLookup(i) ==
    /\ fr[i].pc = "e_lookup"
    /\ \E f \in FaultChoices :
         LET d == fr[i].arg
             found == {e \in Rows(tx, i, "events") : e.wwoz_event_href = d.wwoz_event_href}
             r == IF f = "none" THEN Done(0, tx, nextId) ELSE Fault(i, f)
         IN  /\ tx' = r.tx
             /\ faults' = IF f = "none" THEN faults ELSE faults + 1
             /\ fr' = [fr EXCEPT ![i] =
                   IF r.exc # NULL
                   THEN [@ EXCEPT !.pc = "e_except", !.exc = r.exc, !.faulted = TRUE,
                                  !.fault = f]
                   ELSE IF Cardinality(found) > 1
                   THEN [@ EXCEPT !.pc = "e_except", !.exc = MultipleResultsFound]
                   ELSE IF found # {}
                   THEN LET e == CHOOSE e \in found : TRUE
                        IN  IF TruthyStr(d.description) /\ ~TruthyStr(e.description)
                            THEN [@ EXCEPT !.pc = "e_update", !.loc = [id |-> e.id]]
                            ELSE Ret(@, e.id, "lookup")
                   ELSE [@ EXCEPT !.pc = "e_insert"]]
    /\ UNCHANGED <<mode, now, db, nextId, hs, hist>>

\* An update that embeds the description it fills in.
EventRefresh(cur, d) ==
    [cur EXCEPT !.description = d.description, !.description_embedding = "vector"]

\* existing_event.description = event_data.description
EventMerge(cur, d) == [cur EXCEPT !.description = d.description]

\* The UPDATE of the description of the event found, flushed before the
\* session's next statement.
EventUpdate(i) ==
    /\ fr[i].pc = "e_update"
    /\ ~Locked(i, "events", fr[i].loc.id)
    /\ LET cur == CHOOSE e \in View(i, "events") : e.id = fr[i].loc.id
           new == EventMerge(cur, fr[i].arg)
       IN  /\ tx' = TxUpd(i, "events", new)
           /\ fr' = [fr EXCEPT ![i] = Ret(@, cur.id, "backfill")]
    /\ UNCHANGED <<mode, now, db, nextId, faults, hs, hist>>

\* try: Event(...); generate_embeddings_for_event; session.add;
\* session.flush().
EventInsert(i) ==
    /\ fr[i].pc = "e_insert"
    /\ \E f \in FaultChoices, failAt \in EmbedChoices :
         LET d == fr[i].arg
             emb == Embeddings(d.description, failAt)
             new == EventRow(d, d.artist, d.venue, emb)
             r == IF emb.raised THEN Fail(EmbeddingFailed, tx)
                  ELSE IF f = "none"
                  THEN Insert(i, "events", new, "NONE", Same(View(i, "events")))
                  ELSE Fault(i, f)
         IN  /\ ~r.wait
             /\ tx' = r.tx
             /\ nextId' = r.nextId
             /\ failAt <= EncodeCalls(d.description)
             /\ (f # "none") => failAt = 0
             /\ faults' = IF f = "none" /\ failAt = 0 THEN faults ELSE faults + 1
             /\ fr' = [fr EXCEPT ![i] =
                   IF r.exc # NULL
                   THEN [@ EXCEPT !.pc = "e_except", !.exc = r.exc, !.faulted = (f # "none"),
                                  !.fault = f, !.embed = failAt]
                   ELSE Ret([@ EXCEPT !.embed = failAt], r.id, "created")]
    /\ UNCHANGED <<mode, now, db, hs, hist>>

\* except: with an href, the fallback SELECT; an event found is returned;
\* else the exception is raised again.
EventExcept(i) ==
    /\ fr[i].pc = "e_except"
    /\ LET d == fr[i].arg
           found == {e \in Rows(tx, i, "events") : e.wwoz_event_href = d.wwoz_event_href}
       IN  fr' = [fr EXCEPT ![i] =
                 IF ~TruthyStr(d.wwoz_event_href) THEN Raise(@, @.exc)
                 ELSE IF tx[i].aborted THEN Raise(@, InFailedTransaction)
                 ELSE IF Cardinality(found) > 1 THEN Raise(@, MultipleResultsFound)
                 ELSE IF found # {} THEN Ret(@, (CHOOSE e \in found : TRUE).id, "fallback")
                 ELSE Raise(@, @.exc)]
    /\ UNCHANGED <<mode, now, db, tx, nextId, faults, hs, hist>>


(***************************************************************************)
(* Concurrent loader instances, one upsert per session                     *)
(***************************************************************************)
\* The arguments the instances call the upsert methods with.
GenreNames == {"Jazz", "Funk"}
ArtistArgs ==
    {[name |-> "Kermit Ruffins", description |-> x, wwoz_artist_href |-> h, website |-> UNSET] :
        x \in {UNSET, NULL, "D1"}, h \in {UNSET, "/artists/2"}}
VenueArgs ==
    {[name |-> "Tipitina's", full_address |-> "501 Napoleon Ave", phone_number |-> p,
      website |-> UNSET] : p \in {UNSET, "504-895-8477"}}
EventArgs ==
    {[wwoz_event_href |-> h.href, description |-> h.desc, event_date |-> "2025-07-29"] :
        h \in {[href |-> NULL, desc |-> UNSET], [href |-> "", desc |-> "D1"],
                [href |-> "/events/789", desc |-> UNSET],
                [href |-> "/events/789", desc |-> "D1"]}}

\* Rows a database loaded before holds.
SeedArtist ==
    [id |-> 1, name |-> "Kermit Ruffins", wwoz_artist_href |-> "/artists/1",
     description |-> NULL, website |-> "https://kermit.example"]
SeedVenue ==
    [id |-> 2, name |-> "Tipitina's", phone_number |-> NULL, thoroughfare |-> "",
     locality |-> "New Orleans", state |-> "", postal_code |-> "",
     full_address |-> "501 Napoleon Ave", wwoz_venue_href |-> "", website |-> "",
     is_active |-> TRUE, latitude |-> "29.9636", longitude |-> "-90.0577",
     last_geocoded |-> 0, is_indoors |-> TRUE, is_streaming |-> FALSE]
SeedTables == [EmptyTables EXCEPT !["artists"] = {SeedArtist}, !["venues"] = {SeedVenue}]
\* The venue as a load before geocoding left it.
StaleTables ==
    [SeedTables EXCEPT !["venues"] = {[SeedVenue EXCEPT !.latitude = NULL, !.longitude = NULL,
                                                        !.last_geocoded = NoTime]}]

UpsertModes == {"genre", "artist", "venue", "event"}

\* The key a call is about, as a string.
VenueKey(d) == d.name \o "|" \o d.full_address

\* async with self.db.session() as session: the call begins in a new session.
Begin(i, op, pc, arg, raw, existed) ==
    /\ fr[i].pc = "idle"
    /\ hs[i].calls < MaxCalls
    /\ hs' = [hs EXCEPT ![i].calls = @ + 1]
    /\ tx' = [tx EXCEPT ![i] = NewSession]
    /\ fr' = [fr EXCEPT ![i] = [IdleFrame EXCEPT !.op = op, !.pc = pc, !.arg = arg,
                                                  !.raw = raw, !.existed = existed]]
    /\ UNCHANGED <<mode, now, db, nextId, faults, hist>>

CallGenre(i) ==
    /\ mode = "genre"
    /\ \E name \in GenreNames :
         Begin(i, "genre", "g_insert", [name |-> name], [name |-> name],
               \E g \in db["genres"] : g.name = name)

CallArtist(i) ==
    /\ mode = "artist"
    /\ \E d \in ArtistArgs :
         Begin(i, "artist", "a_insert", ArtistData(d), d,
               \E a \in db["artists"] : a.name = d.name)

CallVenue(i) ==
    /\ mode = "venue"
    /\ \E d \in VenueArgs :
         Begin(i, "venue", "v_lookup", VenueData(d), d,
               \E v \in db["venues"] : VenueMatch(v, VenueData(d)))

\* upsert_event(session, event_data, artist, venue, genres) for an artist
\* and a venue of the database; the lookup is skipped without an href.
CallEvent(i) ==
    /\ mode = "event"
    /\ \E d \in EventArgs, a \in db["artists"], v \in db["venues"] :
         LET raw == [wwoz_event_href |-> d.wwoz_event_href, description |-> d.description,
                     event_date |-> d.event_date,
                     artist |-> [id |-> a.id, name |-> a.name],
                     venue |-> [id |-> v.id, name |-> v.name]]
             arg == EventData(raw)
         IN  Begin(i, "event", IF TruthyStr(arg.wwoz_event_href) THEN "e_lookup" ELSE "e_insert",
                   arg, raw,
                   \E e \in db["events"] : e.wwoz_event_href = arg.wwoz_event_href)

\* The key of the call in frame f.
CallKey(f) ==
    CASE f.op = "genre" -> f.arg.name
      [] f.op = "artist" -> f.arg.name
      [] f.op = "venue" -> VenueKey(f.arg)
      [] OTHER -> f.arg.wwoz_event_href

\* The method returned: the session commits and closes.
HCommit(i) ==
    /\ fr[i].pc = "ret"
    /\ db' = Committed(i)
    /\ tx' = [tx EXCEPT ![i] = NoSession]
    /\ hist' = hist \cup {[op |-> fr[i].op, key |-> CallKey(fr[i]), id |-> fr[i].ret]}
    /\ fr' = [fr EXCEPT ![i] = IdleFrame]
    /\ UNCHANGED <<mode, now, nextId, faults, hs>>

\* The method raised: the session rolls back and closes.
HRollback(i) ==
    /\ fr[i].pc = "raised"
    /\ tx' = [tx EXCEPT ![i] = NoSession]
    /\ fr' = [fr EXCEPT ![i] = IdleFrame]
    /\ hs' = [hs EXCEPT ![i].raised = @ + 1]
    /\ UNCHANGED <<mode, now, db, nextId, faults, hist>>

InitUpsert ==
    /\ mode \in UpsertModes
    /\ now = 20
    /\ db \in {EmptyTables, SeedTables} \cup (IF mode = "venue" THEN {StaleTables} ELSE {})
    /\ nextId = IF db = EmptyTables THEN 1 ELSE 3
    /\ tx = [i \in Inst |-> NoSession]
    /\ faults = 0
    /\ fr = [i \in Inst |-> IdleFrame]
    /\ hs = [i \in Inst |-> [calls |-> 0, raised |-> 0]]
    /\ hist = {}

NextUpsert ==
    \E i \in Inst :
        \/ CallGenre(i) \/ GenreInsert(i) \/ GenreExcept(i) \/ GenreFlush(i)
        \/ CallArtist(i) \/ ArtistInsert(i) \/ ArtistExcept(i) \/ ArtistFlush(i)
        \/ CallVenue(i) \/ VenueLookup(i) \/ VenueUpdate(i) \/ VenueInsert(i)
        \/ VenueExcept(i) \/ VenueFlush(i)
        \/ CallEvent(i) \/ EventLookup(i) \/ EventUpdate(i) \/ EventInsert(i)
        \/ EventExcept(i)
        \/ HCommit(i) \/ HRollback(i)

SpecUpsert == InitUpsert /\ [][NextUpsert]_vars


(***************************************************************************)
(* Properties of the concurrent upserts                                    *)
(***************************************************************************)
\* The key an upsert looks row r of table t up by.
RowKey(t, r) == IF t = "venues" THEN VenueKey(r) ELSE r.name

\* The rows of table t with key k, committed.
RowsOf(t, k) == {r \in db[t] : RowKey(t, r) = k}

\* Instance i's call of op ran without a failure from outside: it is not in
\* an except branch and did not raise, and the row it returned is the one
\* row with its key that its session sees.
CleanCall(i, op, t, handlers) ==
    (fr[i].op = op /\ ~fr[i].faulted) =>
        /\ fr[i].pc \notin handlers \cup {"raised"}
        /\ fr[i].pc = "ret" =>
             \E r \in View(i, t) :
                /\ r.id = fr[i].ret
                /\ {q \in View(i, t) : RowKey(t, q) = CallKey(fr[i])} = {r}

\* Every committed call of op returned the one committed row with its key.
SameRow(op, t) ==
    \A h \in hist : h.op = op =>
        \E r \in db[t] : r.id = h.id /\ RowsOf(t, h.key) = {r}

\* Another instance began its call of op before any row with the key was
\* visible, a first call committed the row, and the instance returned by
\* branch path that same row.
RaceSettled(op, path) ==
    \E i \in Inst, h \in hist :
        /\ fr[i].op = op /\ fr[i].pc = "ret" /\ fr[i].path = path
        /\ ~fr[i].existed /\ ~fr[i].faulted
        /\ h.op = op /\ h.key = CallKey(fr[i]) /\ h.id = fr[i].ret

C7_GenreRaceOneRow ==
    /\ \A g \in db["genres"] : RowsOf("genres", g.name) = {g}
    /\ \A i \in Inst : CleanCall(i, "genre", "genres", {"g_except", "g_flush"})
    /\ SameRow("genre", "genres")
    /\ \A i \in Inst :
         (fr[i].op = "genre" /\ fr[i].pc = "ret" /\ fr[i].path = "refetch") =>
            \E g \in db["genres"] : g.id = fr[i].ret /\ g.name = fr[i].arg.name

C7_Witness == RaceSettled("genre", "refetch")

\* Event rows, committed or written by an open session.
AllEvents == db["events"] \cup UNION {tx[i].ins["events"] : i \in Inst}

NotSupplied(raw, f) == raw[f] \in {UNSET, NULL}

\* C9: a call of upsert_artist that supplies no value for the href, the
\* description or the website leaves what the artist row stores in that
\* column.
C9_KeepsStoredFields ==
    [][\A i \in Inst :
         (fr[i].pc = "a_insert" /\ fr'[i].pc = "ret") =>
            \A old \in {a \in View(i, "artists") : a.name = fr[i].arg.name} :
              \A new \in {a \in tx'[i].upd["artists"] \cup tx'[i].ins["artists"] :
                            a.id = old.id} :
                \A f \in {"wwoz_artist_href", "description", "website"} :
                   NotSupplied(fr[i].raw, f) => new[f] = old[f]]_vars


(***************************************************************************)
(* upsert_venue as the clock advances                                      *)
(***************************************************************************)
\* Half a day passes between two calls.
Tick ==
    /\ \A i \in Inst : fr[i].pc = "idle"
    /\ now < MaxNow
    /\ now' = now + 1
    /\ UNCHANGED <<mode, db, tx, nextId, faults, fr, hs, hist>>

\* The venue of an earlier load: geocoded 10 days or 29.5 days before the
\* clock starts, or never.
AgedTables ==
    {[SeedTables EXCEPT !["venues"] = {[SeedVenue EXCEPT !.last_geocoded = g]}] :
        g \in {40, 1, NoTime}}

InitVenue ==
    /\ mode = "venue"
    /\ now = 60
    /\ db \in {EmptyTables, StaleTables} \cup AgedTables
    /\ nextId = IF db = EmptyTables THEN 1 ELSE 3
    /\ tx = [i \in Inst |-> NoSession]
    /\ faults = 0
    /\ fr = [i \in Inst |-> IdleFrame]
    /\ hs = [i \in Inst |-> [calls |-> 0, raised |-> 0]]
    /\ hist = {}

NextVenue ==
    \/ Tick
    \/ \E i \in Inst :
        \/ CallVenue(i) \/ VenueLookup(i) \/ VenueUpdate(i) \/ VenueInsert(i)
        \/ VenueExcept(i) \/ VenueFlush(i)
        \/ HCommit(i) \/ HRollback(i)

SpecVenue == InitVenue /\ [][NextVenue]_vars

\* C10: upsert_venue finding the venue calls the Geocoding Provider if and
\* only if the venue has no coordinates, or no last_geocoded, or a
\* last_geocoded more than 30 days in the past.
C10_GeocodesIffStale ==
    [][\A i \in Inst :
         (fr[i].pc = "v_lookup" /\ fr'[i].pc \in {"v_update", "ret"}) =>
            \A v \in {v \in View(i, "venues") : VenueMatch(v, fr[i].arg)} :
               (fr'[i].geo = fr[i].geo + 1)
                  <=> \/ v.latitude = NULL \/ v.longitude = NULL
                      \/ v.last_geocoded = NoTime
                      \/ now - v.last_geocoded > StaleDays * HalfDaysPerDay]_vars


(***************************************************************************)
(* save_events: pre-seeding, batches, retry                                *)
(***************************************************************************)
\* batch_size and max_retries.
BatchSize == 5
MaxRetries == 3

\* The behaviours of save_events: loads of several records, the retries of
\* one batch, and two loaders at once.
LoadModes == {"load", "retry", "race", "jitter"}

\* operation_summary and the summary of a batch, as they start.
ZeroSummary ==
    [artists_created |-> 0, venues_created |-> 0, genres_created |-> 0, events_created |-> 0]

\* summary[key] += n
Bump(summary, key, n) == [summary EXCEPT ![key] = @ + n]

\* batch_summary.get(key, 0)
Get(summary, key) == IF key \in DOMAIN summary THEN summary[key] ELSE 0

\* A summary that keeps only the last batch's counts.
AggregateLast(total, summary) == summary

\* for key in operation_summary: operation_summary[key] += batch_summary.get(key, 0)
Aggregate(total, summary) == [key \in DOMAIN total |-> total[key] + Get(summary, key)]

\* Every object an upsert returns counted as created.
AlwaysPending(f) == TRUE

\* obj._sa_instance_state.pending: added to the session and not yet flushed.
Pending(f) == f.state = "pending"

\* A test of the error's text as it is worded, without lower().
IsTransientCased(msg) ==
    \/ Contains(msg, "deadlock")
    \/ Contains(msg, "lock timeout")
    \/ Contains(msg, "concurrent update")

\* The wrapper retries an error whose text names a lock conflict.
IsTransient(msg) ==
    \/ Contains(Lower(msg), "deadlock")
    \/ Contains(Lower(msg), "lock timeout")
    \/ Contains(Lower(msg), "concurrent update")

\* A wrapper that sleeps and tries again whatever the attempt's number.
RetryAlways(attempt) == TRUE

\* and attempt < max_retries - 1
RetryAllowed(attempt) == attempt < MaxRetries - 1

\* A backoff that doubles without the linear term.
DelayDoubles(attempt) == 10 * (2 ^ attempt)

\* delay = 0.1 * (2**attempt) + (0.05 * attempt), in hundredths of a second.
Delay(attempt) == 10 * (2 ^ attempt) + 5 * attempt

\* Database.session wraps what the block raised in a DatabaseError.
SessionError(e) == "Database session error: " \o e

\* Pre-seeding that finds no genre name.
NoGenres(events) == {}

\* set(genre for event in events for genre in event.event_data.genres)
AllGenres(events) ==
    UNION {{events[k].event_data.genres[g] : g \in 1..Len(events[k].event_data.genres)} :
             k \in 1..Len(events)}

\* The frame of a method as it is entered.
Frame(op, pc, arg, raw) == [IdleFrame EXCEPT !.op = op, !.pc = pc, !.arg = arg, !.raw = raw]
GenreFrame(name) == Frame("genre", "g_insert", [name |-> name], [name |-> name])
ArtistFrame(d) == Frame("artist", "a_insert", ArtistData(d), d)
VenueFrame(d) == Frame("venue", "v_lookup", VenueData(d), d)
\* A call that looks the event up whatever its href.
EventFrameLooksUp(d, a, v) ==
    LET raw == [wwoz_event_href |-> d.wwoz_event_href, description |-> d.description,
                event_date |-> d.event_date, artist |-> a, venue |-> v]
    IN  Frame("event", "e_lookup", EventData(raw), raw)

EventFrame(d, a, v) ==
    LET raw == [wwoz_event_href |-> d.wwoz_event_href, description |-> d.description,
                event_date |-> d.event_date, artist |-> a, venue |-> v]
        arg == EventData(raw)
    IN  Frame("event", IF TruthyStr(arg.wwoz_event_href) THEN "e_lookup" ELSE "e_insert",
              arg, raw)

\* The loader's state between two runs of save_events.
LoadIdle(events) ==
    [pc |-> "start", events |-> events, run |-> 1, total |-> ZeroSummary, failed |-> 0,
     start |-> 1, attempt |-> 0, summary |-> ZeroSummary, k |-> 1, gset |-> {},
     gq |-> <<>>, rq |-> <<>>, artist |-> <<>>, venue |-> <<>>, related |-> 0, err |-> NULL,
     returned |-> <<>>, outcomes |-> <<>>, base |-> EmptyTables, first |-> <<>>,
     slept |-> 0, before |-> EmptyTables, batch |-> <<>>,
     wake |-> [at |-> 0, plus |-> 0],
     seeded |-> [calls |-> 0, names |-> {}, end |-> "none"]]

\* A step of instance i's loader: its state, its frame, its session and
\* the committed tables after it.
Drive(i, h, f, t, d) ==
    /\ mode \in LoadModes
    /\ hs' = [hs EXCEPT ![i] = h]
    /\ fr' = [fr EXCEPT ![i] = f]
    /\ tx' = [tx EXCEPT ![i] = t]
    /\ db' = d
    /\ UNCHANGED <<mode, now, nextId, faults, hist>>

\* save_events begins: the summary, and _ensure_genres_exist opens its
\* session when the records name a genre.
SaveEvents(i) ==
    /\ hs[i].pc = "start"
    /\ LET g == AllGenres(hs[i].events)
           h == [hs[i] EXCEPT !.total = ZeroSummary, !.failed = 0, !.start = 1,
                              !.outcomes = <<>>, !.returned = <<>>, !.gset = g, !.base = db,
                              !.seeded = [calls |-> @.calls + 1, names |-> {},
                                          end |-> IF g = {} THEN "empty" ELSE "none"],
                              !.pc = IF g = {} THEN "batches" ELSE "preseed"]
       IN  Drive(i, h, fr[i], IF g = {} THEN tx[i] ELSE NewSession, db)

\* for genre_name in all_genres: get_or_create_genre(session, genre_name)
PreseedCall(i) ==
    /\ hs[i].pc = "preseed" /\ fr[i].pc = "idle"
    /\ \E name \in hs[i].gset :
         Drive(i, [hs[i] EXCEPT !.gset = @ \ {name}, !.seeded.names = @ \cup {name}],
               GenreFrame(name), tx[i], db)

PreseedReturn(i) ==
    /\ hs[i].pc = "preseed" /\ fr[i].pc = "ret"
    /\ Drive(i, hs[i], IdleFrame, tx[i], db)

\* session.commit() after the last genre.
PreseedCommit(i) ==
    /\ hs[i].pc = "preseed" /\ fr[i].pc = "idle" /\ hs[i].gset = {}
    /\ Drive(i, [hs[i] EXCEPT !.pc = "batches", !.seeded.end = "commit"],
             IdleFrame, NoSession, Committed(i))

\* A pre-seeding whose error leaves save_events.
PreseedRaises(i) ==
    /\ hs[i].pc = "preseed" /\ fr[i].pc = "raised"
    /\ Drive(i, [hs[i] EXCEPT !.pc = "done", !.gset = {}, !.seeded.end = "rollback"],
             IdleFrame, NoSession, Rolledback(i))

\* except: session.rollback(); the batches go on.
PreseedExcept(i) ==
    /\ hs[i].pc = "preseed" /\ fr[i].pc = "raised"
    /\ Drive(i, [hs[i] EXCEPT !.pc = "batches", !.gset = {}, !.seeded.end = "rollback"],
             IdleFrame, NoSession, Rolledback(i))

\* A slice that stops one record short of batch_size.
LastOfShort(h) ==
    IF h.start + BatchSize - 2 < Len(h.events) THEN h.start + BatchSize - 2 ELSE Len(h.events)

\* The last record of the batch that starts at record start.
LastOf(h) ==
    IF h.start + BatchSize - 1 < Len(h.events) THEN h.start + BatchSize - 1 ELSE Len(h.events)

\* A loop that steps over a batch.
NextStartSkips(h) == h.start + 2 * BatchSize

\* range(0, len(events), batch_size): where the batch after this one starts.
NextStart(h) == h.start + BatchSize

\* for i in range(0, len(events), batch_size): batch = events[i : i + batch_size];
\* the wrapper's first attempt.
NextBatch(i) ==
    /\ hs[i].pc = "batches"
    /\ hs[i].start <= Len(hs[i].events)
    /\ Drive(i, [hs[i] EXCEPT !.pc = "attempt", !.attempt = 0, !.slept = 0,
                              !.before = db,
                              !.batch = SubSeq(hs[i].events, hs[i].start, LastOf(hs[i]))],
             fr[i], tx[i], db)

\* return operation_summary
ReturnSummary(i) ==
    /\ hs[i].pc = "batches"
    /\ hs[i].start > Len(hs[i].events)
    /\ Drive(i, [hs[i] EXCEPT !.pc = "done", !.returned = hs[i].total], fr[i], tx[i], db)

\* How the wrapper's call for a batch ended: end is "returned" with the
\* summary returned, "none" when it returned None, or "raised" with the
\* error raised; attempts is the number of attempts made and slept what the
\* wrapper slept.  ok: the batch's summary went into the totals.
Outcome(h, end, summary, err) ==
    [ok |-> (end = "returned"), summary |-> summary, end |-> end,
     err |-> err, attempts |-> h.attempt + 1, slept |-> h.slept, start |-> h.start,
     batch |-> h.batch]

\* for attempt in range(max_retries): _process_event_batch opens its session
\* and its summary.  When the range is used up the wrapper returns None, on
\* which save_events' batch_summary.get raises: the batch counts as failed.
\* An attempt that goes on with the counts of the attempt before it.
AttemptCarries(i) ==
    /\ hs[i].pc = "attempt"
    /\ IF hs[i].attempt < MaxRetries
       THEN Drive(i, [hs[i] EXCEPT !.pc = "record", !.k = hs[i].start],
                  IdleFrame, NewSession, db)
       ELSE Drive(i, [hs[i] EXCEPT !.pc = "batches", !.start = NextStart(hs[i]),
                                   !.failed = @ + 1,
                                   !.outcomes = Append(@, [Outcome(hs[i], "none", NULL, NULL)
                                                             EXCEPT !.attempts = hs[i].attempt])],
                  fr[i], tx[i], db)

Attempt(i) ==
    /\ hs[i].pc = "attempt"
    /\ IF hs[i].attempt < MaxRetries
       THEN Drive(i, [hs[i] EXCEPT !.pc = "record", !.summary = ZeroSummary,
                                   !.k = hs[i].start],
                  IdleFrame, NewSession, db)
       ELSE Drive(i, [hs[i] EXCEPT !.pc = "batches", !.start = NextStart(hs[i]),
                                   !.failed = @ + 1,
                                   !.outcomes = Append(@, [Outcome(hs[i], "none", NULL, NULL)
                                                             EXCEPT !.attempts = hs[i].attempt])],
                  fr[i], tx[i], db)


\* for event in batch: the genres of the record are fetched first.
RecordBegin(i) ==
    /\ hs[i].pc = "record" /\ hs[i].k <= LastOf(hs[i])
    /\ Drive(i, [hs[i] EXCEPT !.pc = "genres",
                              !.gq = hs[i].events[hs[i].k].event_data.genres],
             fr[i], tx[i], db)

GenreCall(i) ==
    /\ hs[i].pc = "genres" /\ fr[i].pc = "idle" /\ hs[i].gq # <<>>
    /\ Drive(i, hs[i], GenreFrame(Head(hs[i].gq)), tx[i], db)

GenreReturn(i) ==
    /\ hs[i].pc = "genres" /\ fr[i].pc = "ret"
    /\ Drive(i, [hs[i] EXCEPT !.gq = Tail(@)], IdleFrame, tx[i], db)

ArtistCall(i) ==
    /\ hs[i].pc = "genres" /\ fr[i].pc = "idle" /\ hs[i].gq = <<>>
    /\ Drive(i, [hs[i] EXCEPT !.pc = "artist"],
             ArtistFrame(hs[i].events[hs[i].k].artist_data), tx[i], db)

\* upsert_artist returned: count it when pending; then upsert_venue.
AfterArtist(i) ==
    /\ hs[i].pc = "artist" /\ fr[i].pc = "ret"
    /\ Drive(i, [hs[i] EXCEPT !.pc = "venue",
                              !.summary = Bump(@, "artists_created",
                                               IF Pending(fr[i]) THEN 1 ELSE 0),
                              !.artist = [id |-> fr[i].ret, name |-> fr[i].arg.name]],
             VenueFrame(hs[i].events[hs[i].k].venue_data), tx[i], db)

\* upsert_venue returned: count it when pending; then the related artists.
AfterVenue(i) ==
    /\ hs[i].pc = "venue" /\ fr[i].pc = "ret"
    /\ Drive(i, [hs[i] EXCEPT !.pc = "related",
                              !.summary = Bump(@, "venues_created",
                                               IF Pending(fr[i]) THEN 1 ELSE 0),
                              !.venue = [id |-> fr[i].ret, name |-> fr[i].arg.name],
                              !.rq = hs[i].events[hs[i].k].event_data.related_artists],
             IdleFrame, tx[i], db)

\* Artist(name=related_name)
StubArtist(name) ==
    [id |-> 0, name |-> name, wwoz_artist_href |-> NULL, description |-> NULL,
     website |-> NULL]

\* A related artist added without the SELECT by name.
RelatedArtistBlind(i) ==
    /\ hs[i].pc = "related" /\ fr[i].pc = "idle" /\ hs[i].rq # <<>>
    /\ Drive(i, [hs[i] EXCEPT !.pc = "stub"], fr[i], tx[i], db)

\* A related artist: the SELECT by name.
RelatedArtist(i) ==
    /\ mode \in LoadModes
    /\ hs[i].pc = "related" /\ fr[i].pc = "idle" /\ hs[i].rq # <<>>
    /\ LET name == Head(hs[i].rq)
           found == {a \in Rows(tx, i, "artists") : a.name = name}
       IN  IF Cardinality(found) > 1
           THEN /\ fr' = [fr EXCEPT ![i] =
                     Raise(Frame("related", "idle", [name |-> name], [name |-> name]),
                           MultipleResultsFound)]
                /\ hs' = hs
           ELSE /\ fr' = fr
                /\ hs' = IF found # {}
                         THEN [hs EXCEPT ![i].pc = "relation",
                                         ![i].related = (CHOOSE a \in found : TRUE).id]
                         ELSE [hs EXCEPT ![i].pc = "stub"]
    /\ UNCHANGED <<mode, now, db, tx, nextId, faults, hist>>

\* An artist not found is added, flushed and counted.
StubInsert(i) ==
    /\ mode \in LoadModes
    /\ hs[i].pc = "stub"
    /\ LET name == Head(hs[i].rq)
           r == Insert(i, "artists", StubArtist(name), "NONE", Same(View(i, "artists")))
       IN  /\ ~r.wait
           /\ tx' = r.tx
           /\ nextId' = r.nextId
           /\ IF r.exc # NULL
              THEN /\ fr' = [fr EXCEPT ![i] =
                        Raise(Frame("related", "idle", [name |-> name], [name |-> name]),
                              r.exc)]
                   /\ hs' = hs
              ELSE /\ fr' = fr
                   /\ hs' = [hs EXCEPT ![i].pc = "relation", ![i].related = r.id,
                                       ![i].summary = Bump(@, "artists_created", 1)]
    /\ UNCHANGED <<mode, now, db, faults, hist>>

\* The SELECT of the relation.
Relation(i) ==
    /\ mode \in LoadModes
    /\ hs[i].pc = "relation"
    /\ LET found == {x \in Rows(tx, i, "artist_relations") :
                        /\ x.artist_id = hs[i].artist.id
                        /\ x.related_artist_id = hs[i].related}
       IN  IF Cardinality(found) > 1
           THEN /\ fr' = [fr EXCEPT ![i] =
                     Raise(Frame("relation", "idle", <<>>, <<>>), MultipleResultsFound)]
                /\ hs' = hs
           ELSE /\ fr' = fr
                /\ hs' = IF found # {}
                         THEN [hs EXCEPT ![i].pc = "related", ![i].rq = Tail(@)]
                         ELSE [hs EXCEPT ![i].pc = "edge"]
    /\ UNCHANGED <<mode, now, db, tx, nextId, faults, hist>>

\* A relation from the related artist back to the primary artist.
EdgeRowReversed(h) ==
    [id |-> 0, artist_id |-> h.related, related_artist_id |-> h.artist.id]

\* ArtistRelation(artist_id=artist.id, related_artist_id=related_artist.id)
EdgeRow(h) == [id |-> 0, artist_id |-> h.artist.id, related_artist_id |-> h.related]

\* A relation not found is added; its INSERT is flushed before the
\* session's next statement.
RelationInsert(i) ==
    /\ mode \in LoadModes
    /\ hs[i].pc = "edge"
    /\ LET r == Insert(i, "artist_relations", EdgeRow(hs[i]),
                       "NONE", Same(View(i, "artist_relations")))
       IN  /\ ~r.wait
           /\ tx' = r.tx
           /\ nextId' = r.nextId
           /\ IF r.exc # NULL
              THEN /\ fr' = [fr EXCEPT ![i] =
                        Raise(Frame("relation", "idle", <<>>, <<>>), r.exc)]
                   /\ hs' = hs
              ELSE /\ fr' = fr
                   /\ hs' = [hs EXCEPT ![i].pc = "related", ![i].rq = Tail(@)]
    /\ UNCHANGED <<mode, now, db, faults, hist>>

EventCall(i) ==
    /\ hs[i].pc = "related" /\ fr[i].pc = "idle" /\ hs[i].rq = <<>>
    /\ Drive(i, [hs[i] EXCEPT !.pc = "event"],
             EventFrame(hs[i].events[hs[i].k].event_data, hs[i].artist, hs[i].venue),
             tx[i], db)

\* upsert_event returned: count it when pending; the next record.
AfterEvent(i) ==
    /\ hs[i].pc = "event" /\ fr[i].pc = "ret"
    /\ Drive(i, [hs[i] EXCEPT !.pc = "record", !.k = @ + 1,
                              !.summary = Bump(@, "events_created",
                                               IF Pending(fr[i]) THEN 1 ELSE 0)],
             IdleFrame, tx[i], db)

\* session.commit(); return summary; save_events adds the batch's summary
\* to its own.
BatchCommit(i) ==
    /\ hs[i].pc = "record" /\ hs[i].k > LastOf(hs[i])
    /\ Drive(i, [hs[i] EXCEPT !.pc = "batches", !.start = NextStart(hs[i]),
                              !.total = Aggregate(@, hs[i].summary),
                              !.outcomes = Append(@, Outcome(hs[i], "returned",
                                                             hs[i].summary, NULL))],
             IdleFrame, NoSession, Committed(i))

\* An error that leaves the batch with its session still open.
BatchExceptLeaks(i) ==
    /\ hs[i].pc \in {"genres", "artist", "venue", "related", "stub", "relation", "edge", "event"}
    /\ fr[i].pc = "raised"
    /\ Drive(i, [hs[i] EXCEPT !.pc = "caught", !.err = SessionError(fr[i].exc)],
             IdleFrame, tx[i], Rolledback(i))

\* except: session.rollback(); raise, wrapped by Database.session.
BatchExcept(i) ==
    /\ hs[i].pc \in {"genres", "artist", "venue", "related", "stub", "relation", "edge", "event"}
    /\ fr[i].pc = "raised"
    /\ Drive(i, [hs[i] EXCEPT !.pc = "caught", !.err = SessionError(fr[i].exc)],
             IdleFrame, NoSession, Rolledback(i))

\* The wrapper sleeps and tries the batch again: wake is the instant of the
\* failure and the delay after which asyncio.sleep returns.
Retry(i) ==
    /\ hs[i].pc = "caught"
    /\ IsTransient(hs[i].err) /\ RetryAllowed(hs[i].attempt)
    /\ Drive(i, [hs[i] EXCEPT !.pc = "attempt", !.attempt = @ + 1,
                              !.slept = @ + Delay(hs[i].attempt),
                              !.wake = [at |-> now, plus |-> Delay(hs[i].attempt)]],
             fr[i], tx[i], db)

\* The wrapper raises; save_events counts the failed batch and goes on.
BatchFailed(i) ==
    /\ hs[i].pc = "caught"
    /\ ~(IsTransient(hs[i].err) /\ RetryAllowed(hs[i].attempt))
    /\ Drive(i, [hs[i] EXCEPT !.pc = "batches", !.start = NextStart(hs[i]),
                              !.failed = @ + 1,
                              !.outcomes = Append(@, Outcome(hs[i], "raised",
                                                             hs[i].summary, hs[i].err))],
             fr[i], tx[i], db)

\* The same records are loaded a second time.
Reload(i) ==
    /\ hs[i].pc = "done" /\ hs[i].run = 1
    /\ Drive(i, [LoadIdle(hs[i].events) EXCEPT
                    !.run = 2,
                    !.first = [returned |-> hs[i].returned, failed |-> hs[i].failed,
                               outcomes |-> hs[i].outcomes]],
             fr[i], tx[i], db)


(***************************************************************************)
(* The records loaded                                                      *)
(***************************************************************************)
\* EventDTO(artist_data, venue_data, event_data)
Record(artist, venue, href, description, genres, related) ==
    [artist_data |-> [name |-> artist, description |-> UNSET, wwoz_artist_href |-> UNSET,
                      website |-> UNSET],
     venue_data |-> venue,
     event_data |-> [wwoz_event_href |-> href, description |-> description,
                     event_date |-> "2025-03-21", genres |-> genres,
                     related_artists |-> related]]

BlueNile ==
    [name |-> "Blue Nile", full_address |-> "532 Frenchmen St", phone_number |-> UNSET,
     website |-> UNSET]
Tipitinas ==
    [name |-> "Tipitina's", full_address |-> "501 Napoleon Ave", phone_number |-> UNSET,
     website |-> UNSET]

\* One record with an artist, a venue, two genres and an event href.
OneRecord == <<Record("Kermit Ruffins", BlueNile, "/events/789", UNSET, <<"Jazz", "Blues">>, <<>>)>>
\* One record whose event has no href: null, or the dataclass's "".
NullHref == <<Record("Kermit Ruffins", BlueNile, NULL, UNSET, <<"Jazz">>, <<>>)>>
EmptyHref == <<Record("Kermit Ruffins", BlueNile, UNSET, UNSET, <<>>, <<"Rebirth Brass Band">>)>>
\* Two records of one artist at two venues, the second with a description
\* and a related artist.
TwoRecords ==
    <<Record("Kermit Ruffins", BlueNile, "/events/788", UNSET, <<"Jazz">>, <<>>),
      Record("Kermit Ruffins", Tipitinas, "/events/789", "D1", <<"Jazz">>,
             <<"Rebirth Brass Band">>)>>
\* Records for three batches, each batch with a related artist of its own.
ManyRecords ==
    [k \in 1..(2 * BatchSize + 1) |->
        Record("Kermit Ruffins", BlueNile, "/events/" \o ToString(k), UNSET, <<>>,
               <<"Related " \o ToString((k - 1) \div BatchSize)>>)]

\* No record, and the records of exactly one batch.
NoRecords == <<>>
FullBatch == SubSeq(ManyRecords, 1, BatchSize)

\* Two records at venues whose names hold, in capitals, the words of the
\* indoor and streaming rule.
OutdoorStage ==
    [name |-> "Jazz Fest OUTDOOR Stage", full_address |-> "1751 Gentilly Blvd",
     phone_number |-> UNSET, website |-> UNSET]
StreamingStudio ==
    [name |-> "WWOZ Live Streaming", full_address |-> "1008 N Peters St",
     phone_number |-> UNSET, website |-> UNSET]
FlagRecords ==
    <<Record("Kermit Ruffins", OutdoorStage, "/events/790", UNSET, <<>>, <<>>),
      Record("Kermit Ruffins", StreamingStudio, "/events/791", UNSET, <<>>, <<>>)>>

EventLists ==
    {NoRecords, OneRecord, NullHref, EmptyHref, TwoRecords, FullBatch, ManyRecords, FlagRecords}

\* An event of an earlier load, without a description.
SeedEvent ==
    [id |-> 3, wwoz_event_href |-> "/events/789", description |-> NULL,
     artist_id |-> 1, venue_id |-> 2, artist_name |-> "Kermit Ruffins",
     venue_name |-> "Tipitina's", performance_time |-> "2025-03-21", scrape_time |-> 0,
     is_indoors |-> TRUE, is_streaming |-> FALSE,
     description_embedding |-> NULL, event_text_embedding |-> NULL]
LoadSeed == [StaleTables EXCEPT !["events"] = {SeedEvent}]

InitLoad ==
    /\ mode = "load"
    /\ now = 20
    /\ db \in {EmptyTables, LoadSeed}
    /\ nextId = IF db = EmptyTables THEN 1 ELSE 4
    /\ tx = [i \in Inst |-> NoSession]
    /\ faults = 0
    /\ fr = [i \in Inst |-> IdleFrame]
    /\ \E events \in EventLists :
         hs = [i \in Inst |-> IF i = 1 THEN LoadIdle(events)
                              ELSE [LoadIdle(<<>>) EXCEPT !.pc = "off"]]
    /\ hist = {}

NextLoad ==
    \E i \in Inst :
        \/ SaveEvents(i) \/ PreseedCall(i) \/ PreseedReturn(i) \/ PreseedCommit(i)
        \/ PreseedExcept(i) \/ NextBatch(i) \/ ReturnSummary(i) \/ Attempt(i)
        \/ RecordBegin(i) \/ GenreCall(i) \/ GenreReturn(i) \/ ArtistCall(i)
        \/ AfterArtist(i) \/ AfterVenue(i) \/ RelatedArtist(i) \/ StubInsert(i) \/ Relation(i)
        \/ RelationInsert(i)
        \/ EventCall(i) \/ AfterEvent(i) \/ BatchCommit(i) \/ BatchExcept(i)
        \/ Retry(i) \/ BatchFailed(i) \/ Reload(i)
        \/ GenreInsert(i) \/ GenreExcept(i) \/ GenreFlush(i)
        \/ ArtistInsert(i) \/ ArtistExcept(i) \/ ArtistFlush(i)
        \/ VenueLookup(i) \/ VenueUpdate(i) \/ VenueInsert(i) \/ VenueExcept(i)
        \/ VenueFlush(i)
        \/ EventLookup(i) \/ EventUpdate(i) \/ EventInsert(i) \/ EventExcept(i)

SpecLoad == InitLoad /\ [][NextLoad]_vars

\* The retries of a batch: one loader, a batch of one or two records, and
\* statements failing from outside up to MaxRetryFaults times.
RetryLists == {OneRecord, NullHref, EmptyHref, TwoRecords}

InitRetry ==
    /\ mode = "retry"
    /\ now = 20
    /\ db \in {EmptyTables, LoadSeed}
    /\ nextId = IF db = EmptyTables THEN 1 ELSE 4
    /\ tx = [i \in Inst |-> NoSession]
    /\ faults = 0
    /\ fr = [i \in Inst |-> IdleFrame]
    /\ \E events \in RetryLists :
         hs = [i \in Inst |-> IF i = 1 THEN LoadIdle(events)
                              ELSE [LoadIdle(<<>>) EXCEPT !.pc = "off"]]
    /\ hist = {}

SpecRetry == InitRetry /\ [][NextLoad]_vars

\* Two loaders at once on tables that hold nothing yet.  Their records
\* have an artist and a venue each and share
\*   - the related artist, or
\*   - the primary artist and the related artist, or
\*   - the event href, the second loader with one more record.
Rebirth == "Rebirth Brass Band"
StubRace ==
    <<<<Record("Kermit Ruffins", BlueNile, "/events/1", UNSET, <<>>, <<Rebirth>>)>>,
      <<Record("Trombone Shorty", Tipitinas, "/events/2", UNSET, <<>>, <<Rebirth>>)>>>>
PairRace ==
    <<<<Record("Kermit Ruffins", BlueNile, "/events/1", UNSET, <<>>, <<Rebirth>>)>>,
      <<Record("Kermit Ruffins", Tipitinas, "/events/2", UNSET, <<>>, <<Rebirth>>)>>>>
HrefRace ==
    <<<<Record("Kermit Ruffins", BlueNile, "/events/1", UNSET, <<>>, <<>>)>>,
      <<Record("Trombone Shorty", Tipitinas, "/events/1", UNSET, <<>>, <<>>),
        Record("Trombone Shorty", Tipitinas, "/events/2", UNSET, <<>>, <<>>)>>>>
RaceLists == {StubRace, PairRace, HrefRace}

\* Two loaders whose records share nothing, their events without an href.
ApartLists ==
    {<<<<Record("Kermit Ruffins", BlueNile, NULL, UNSET, <<>>, <<>>)>>,
       <<Record("Trombone Shorty", Tipitinas, NULL, UNSET, <<>>, <<>>)>>>>}

TwoLoaders(m, pairs) ==
    /\ mode = m
    /\ now = 20
    /\ db = EmptyTables
    /\ nextId = 1
    /\ tx = [i \in Inst |-> NoSession]
    /\ faults = 0
    /\ fr = [i \in Inst |-> IdleFrame]
    /\ \E lists \in pairs :
         hs = [i \in Inst |-> IF i <= 2 THEN LoadIdle(lists[i])
                              ELSE [LoadIdle(<<>>) EXCEPT !.pc = "off"]]
    /\ hist = {}

InitRace == TwoLoaders("race", RaceLists)

\* The steps of a batch of records that name no genre, on tables without a
\* stale venue and without an event.
BatchSteps(i) ==
    \/ SaveEvents(i) \/ NextBatch(i) \/ ReturnSummary(i) \/ Attempt(i)
    \/ RecordBegin(i) \/ ArtistCall(i) \/ AfterArtist(i) \/ AfterVenue(i)
    \/ EventCall(i) \/ AfterEvent(i) \/ BatchCommit(i) \/ BatchExcept(i)
    \/ BatchFailed(i)
    \/ ArtistInsert(i) \/ VenueLookup(i) \/ VenueInsert(i)
    \/ EventInsert(i) \/ EventExcept(i)

\* No statement fails from outside: upsert_artist and upsert_venue do not
\* raise and no error is transient.
NextRace ==
    \E i \in Inst :
        \/ BatchSteps(i)
        \/ RelatedArtist(i) \/ StubInsert(i) \/ Relation(i) \/ RelationInsert(i)
        \/ EventLookup(i)

SpecRace == InitRace /\ [][NextRace]_vars

InitJitter == TwoLoaders("jitter", ApartLists)

\* The records name no related artist and no href; a lock timeout leaves the fallbacks
\* of upsert_artist and upsert_venue no transaction to create in.
NextJitter ==
    \E i \in Inst :
        \/ BatchSteps(i)
        \/ ArtistExcept(i) \/ VenueExcept(i) \/ Retry(i)

SpecJitter == InitJitter /\ [][NextJitter]_vars


(***************************************************************************)
(* geocode_address on its own                                              *)
(***************************************************************************)
\* Addresses: none, empty, blank, streaming, and street addresses, one of
\* them with the word streaming in lower case.
Addresses ==
    {NULL, "", " ", " \t\n", ".Streaming", "WWOZ.Streaming Studio", "532 Frenchmen St",
     "live streaming, 1008 N Peters St"}

\* Instance 1 holds a call of geocode_address with its address, its API key
\* and the provider's behaviour.
InitGeocode ==
    /\ mode = "geocode"
    /\ now = 20
    /\ db = EmptyTables
    /\ nextId = 1
    /\ tx = [i \in Inst |-> NoSession]
    /\ faults = 0
    /\ fr = [i \in Inst |-> IdleFrame]
    /\ \E a \in Addresses, k \in ApiKeys, r \in Responses :
         hs = [i \in Inst |->
                 [pc |-> IF i = 1 THEN "call" ELSE "off", address |-> a, key |-> k,
                  resp |-> r, out |-> Thrown]]
    /\ hist = {}

\* geocode_address(address) runs to its end.
Geocode(i) ==
    /\ mode = "geocode"
    /\ hs[i].pc = "call"
    /\ hs' = [hs EXCEPT ![i].pc = "end",
                        ![i].out = GeocodeAddress(hs[i].address, hs[i].key, hs[i].resp)]
    /\ UNCHANGED <<mode, now, db, tx, nextId, faults, fr, hist>>

NextGeocode == \E i \in Inst : Geocode(i)

SpecGeocode == InitGeocode /\ [][NextGeocode]_vars


(***************************************************************************)
(* extract_date_from_s3_key                                                *)
(***************************************************************************)
\* \d of the patterns.
Digits == {"0", "1", "2", "3", "4", "5", "6", "7", "8", "9"}

\* The three patterns, "#" standing for \d.
PathPattern == "raw_events/####/##/##/"
FilenamePattern == "event_data_####-##-##_"
StampPattern == "_########_"

\* The pattern matches s at position k.
Matches(s, k, pat) ==
    /\ k + Len(pat) - 1 <= Len(s)
    /\ \A j \in 1..Len(pat) :
         LET c == SubSeq(s, k + j - 1, k + j - 1)
             q == SubSeq(pat, j, j)
         IN  IF q = "#" THEN c \in Digits ELSE c = q

\* re.search(pat, s): the position of the leftmost match, 0 for None.
Search(s, pat) ==
    LET found == {k \in 1..Len(s) : Matches(s, k, pat)}
    IN  IF found = {} THEN 0 ELSE CHOOSE k \in found : \A l \in found : k <= l

\* f"{year}-{month}-{day}"
Dashed(year, month, day) == year \o "-" \o month \o "-" \o day

\* Method 1 on a match at k: the groups of the path.
PathDate(s, k) ==
    Dashed(SubSeq(s, k + 11, k + 14), SubSeq(s, k + 16, k + 17), SubSeq(s, k + 19, k + 20))

\* Method 2 on a match at k: group(1) of the filename.
FilenameDate(s, k) == SubSeq(s, k + 11, k + 20)

\* Method 3 on a match at k: date_str[:4], date_str[4:6], date_str[6:8].
StampDate(s, k) ==
    Dashed(SubSeq(s, k + 1, k + 4), SubSeq(s, k + 5, k + 6), SubSeq(s, k + 7, k + 8))

\* The methods tried with the filename first.
ExtractFilenameFirst(s3_key) ==
    IF s3_key = NULL THEN NULL
    ELSE IF Search(s3_key, FilenamePattern) # 0
    THEN FilenameDate(s3_key, Search(s3_key, FilenamePattern))
    ELSE IF Search(s3_key, PathPattern) # 0
    THEN PathDate(s3_key, Search(s3_key, PathPattern))
    ELSE IF Search(s3_key, StampPattern) # 0
    THEN StampDate(s3_key, Search(s3_key, StampPattern))
    ELSE NULL

\* extract_date_from_s3_key(s3_key); re.search raises on None, which the
\* except turns into None.
ExtractDateFromS3Key(s3_key) ==
    IF s3_key = NULL THEN NULL
    ELSE IF Search(s3_key, PathPattern) # 0
    THEN PathDate(s3_key, Search(s3_key, PathPattern))
    ELSE IF Search(s3_key, FilenamePattern) # 0
    THEN FilenameDate(s3_key, Search(s3_key, FilenamePattern))
    ELSE IF Search(s3_key, StampPattern) # 0
    THEN StampDate(s3_key, Search(s3_key, StampPattern))
    ELSE NULL

\* S3 keys: a directory, the beginning of a file name and its end.
KeyDirs ==
    {"", "raw_events/2025/03/22/", "raw_events/2025/3/22/", "archive/2024/01/05/",
     "backup/raw_events/2023/12/31/raw_events/2025/07/30/"}
KeyNames ==
    {"event_data_2025-03-21_", "event_data_2025-3-21_", "event_data_20250321_",
     "file_name_", "events"}
KeyEnds == {"20250320_090000.json", "2025032_090000.json", "090000.json"}
S3Keys == {NULL, ""} \cup {d \o n \o e : d \in KeyDirs, n \in KeyNames, e \in KeyEnds}

\* Instance 1 holds a call of extract_date_from_s3_key.
InitExtract ==
    /\ mode = "extract"
    /\ now = 20
    /\ db = EmptyTables
    /\ nextId = 1
    /\ tx = [i \in Inst |-> NoSession]
    /\ faults = 0
    /\ fr = [i \in Inst |-> IdleFrame]
    /\ \E key \in S3Keys :
         hs = [i \in Inst |->
                 [pc |-> IF i = 1 THEN "call" ELSE "off", s3_key |-> key, out |-> NULL]]
    /\ hist = {}

\* extract_date_from_s3_key(s3_key) runs to its end.
ExtractDate(i) ==
    /\ mode = "extract"
    /\ hs[i].pc = "call"
    /\ hs' = [hs EXCEPT ![i].pc = "end", ![i].out = ExtractDateFromS3Key(hs[i].s3_key)]
    /\ UNCHANGED <<mode, now, db, tx, nextId, faults, fr, hist>>

NextExtract == \E i \in Inst : ExtractDate(i)

SpecExtract == InitExtract /\ [][NextExtract]_vars


(***************************************************************************)
(* The backfill of the embeddings                                          *)
(***************************************************************************)
\* The backfills in the order run_backfill calls them.
Kinds == <<"genres", "artists", "venues">>

\* if self.stats[...] % 10 == 0: await session.commit()
CommitEvery == 10

\* An embedding that is not None.
Vector == "vector"

\* self.stats of a new EmbeddingBackfillService.
ZeroStats ==
    [artists_processed |-> 0, venues_processed |-> 0, genres_processed |-> 0,
     artists_updated |-> 0, venues_updated |-> 0, genres_updated |-> 0, errors |-> 0]

\* An entity get_entities_without_embeddings selects: its embedding is NULL.
\* outcome records what generating its embedding did.
Unfilled == [embedding |-> NULL, outcome |-> "pending"]

\* A list of n such entities.
UnfilledList(n) == [k \in 1..n |-> Unfilled]

\* How a backfill ended: the statistics before and after it and the last
\* thing it did with the session.
NotEnded == [done |-> FALSE, before |-> ZeroStats, stats |-> ZeroStats, last |-> "none"]

\* db_service.generate_embeddings_for_<kind>(entity) as the backfill sees
\* it: it sets the embedding ("set"), leaves it None ("none"), or raises
\* ("raise"); at most MaxGenerateFaults calls do not set it.
GenerateChoices(h) ==
    {"set"} \cup (IF h.misses < MaxGenerateFaults THEN {"none", "raise"} ELSE {})

\* One turn of the loop without its try: the exception of the generation
\* leaves the backfill.
ProcessedUncaught(h, outcome) ==
    [raised |-> outcome = "raise",
     h |-> [h EXCEPT !.stats[Kinds[h.kind] \o "_processed"] = @ + 1, !.k = @ + 1,
                     !.entities[Kinds[h.kind]][h.k].outcome = outcome,
                     !.entities[Kinds[h.kind]][h.k].embedding =
                         IF outcome = "set" THEN Vector ELSE @,
                     !.stats[Kinds[h.kind] \o "_updated"] =
                         IF outcome = "set" THEN @ + 1 ELSE @,
                     !.misses = IF outcome = "set" THEN @ ELSE @ + 1]]

\* One turn of for entity in entities: processed is counted, the embedding
\* generated, updated counted when the embedding is not None, the session
\* committed on every tenth entity processed; an exception counts as an
\* error and the loop continues.
Processed(h, outcome) ==
    LET kind == Kinds[h.kind]
        counted == [h EXCEPT !.stats[kind \o "_processed"] = @ + 1, !.k = @ + 1,
                             !.entities[kind][h.k].outcome = outcome,
                             !.last = "generate"]
        generated == [counted EXCEPT !.entities[kind][h.k].embedding =
                                         IF outcome = "set" THEN Vector ELSE @]
        updated == IF generated.entities[kind][h.k].embedding # NULL
                   THEN [generated EXCEPT !.stats[kind \o "_updated"] = @ + 1]
                   ELSE generated
        committed == IF updated.stats[kind \o "_processed"] % CommitEvery = 0
                     THEN [updated EXCEPT !.commits = @ + 1, !.last = "commit"]
                     ELSE updated
    IN  IF outcome = "raise"
        THEN [raised |-> FALSE,
              h |-> [counted EXCEPT !.stats.errors = @ + 1, !.misses = @ + 1]]
        ELSE [raised |-> FALSE,
              h |-> [committed EXCEPT !.misses = IF outcome = "none" THEN @ + 1 ELSE @]]

\* The numbers of entities without embeddings that run_backfill finds.
ListLengths ==
    {[genres |-> g, artists |-> a, venues |-> v] :
        g \in {0, 1, 2, CommitEvery, CommitEvery + 1}, a \in 0..2, v \in 0..2}

\* Instance 1 is an EmbeddingBackfillService about to run run_backfill on
\* the entities without embeddings.
InitBackfill ==
    /\ mode = "backfill"
    /\ now = 20
    /\ db = EmptyTables
    /\ nextId = 1
    /\ tx = [i \in Inst |-> NoSession]
    /\ faults = 0
    /\ fr = [i \in Inst |-> IdleFrame]
    /\ \E n \in ListLengths :
         hs = [i \in Inst |->
                 [pc |-> IF i = 1 THEN "start" ELSE "off", kind |-> 1, k |-> 1,
                  stats |-> ZeroStats,
                  entities |-> [kind \in {"genres", "artists", "venues"} |->
                                  UnfilledList(n[kind])],
                  commits |-> 0, last |-> "none", misses |-> 0,
                  ended |-> [kind \in {"genres", "artists", "venues"} |-> NotEnded]]]
    /\ hist = {}

\* A step of instance i's backfill service.
Service(i, h) ==
    /\ mode = "backfill"
    /\ hs' = [hs EXCEPT ![i] = h]
    /\ UNCHANGED <<mode, now, db, tx, nextId, faults, fr, hist>>

\* run_backfill: the entities are fetched; with none of them it returns.
RunBackfill(i) ==
    /\ hs[i].pc = "start"
    /\ Service(i, [hs[i] EXCEPT !.pc =
                      IF \A kind \in DOMAIN hs[i].entities : hs[i].entities[kind] = <<>>
                      THEN "done" ELSE "next"])

\* if entities[kind]: the backfill of a kind with entities begins.
BackfillBegin(i) ==
    /\ hs[i].pc = "next" /\ hs[i].kind <= Len(Kinds)
    /\ hs[i].entities[Kinds[hs[i].kind]] # <<>>
    /\ Service(i, [hs[i] EXCEPT !.pc = "loop", !.k = 1,
                                !.ended[Kinds[hs[i].kind]].before = hs[i].stats])

\* A kind without entities is passed over.
BackfillSkip(i) ==
    /\ hs[i].pc = "next" /\ hs[i].kind <= Len(Kinds)
    /\ hs[i].entities[Kinds[hs[i].kind]] = <<>>
    /\ Service(i, [hs[i] EXCEPT !.kind = @ + 1])

\* for entity in entities: one entity.
BackfillEntity(i) ==
    /\ hs[i].pc = "loop" /\ hs[i].k <= Len(hs[i].entities[Kinds[hs[i].kind]])
    /\ \E outcome \in GenerateChoices(hs[i]) :
         LET r == Processed(hs[i], outcome)
         IN  Service(i, IF r.raised THEN [r.h EXCEPT !.pc = "raised"] ELSE r.h)

\* The final commit of a backfill.
BackfillEnd(i) ==
    /\ hs[i].pc = "loop" /\ hs[i].k > Len(hs[i].entities[Kinds[hs[i].kind]])
    /\ Service(i, [hs[i] EXCEPT !.pc = "next", !.kind = @ + 1, !.commits = @ + 1,
                                !.last = "commit",
                                !.ended[Kinds[hs[i].kind]] =
                                    [done |-> TRUE, before |-> @.before,
                                     stats |-> hs[i].stats, last |-> "commit"]])

\* run_backfill returns after the last backfill.
BackfillComplete(i) ==
    /\ hs[i].pc = "next" /\ hs[i].kind > Len(Kinds)
    /\ Service(i, [hs[i] EXCEPT !.pc = "done"])

NextBackfill ==
    \E i \in Inst :
        \/ RunBackfill(i) \/ BackfillBegin(i) \/ BackfillSkip(i) \/ BackfillEntity(i)
        \/ BackfillEnd(i) \/ BackfillComplete(i)

SpecBackfill == InitBackfill /\ [][NextBackfill]_vars


(***************************************************************************)
(* Properties of save_events                                               *)
(***************************************************************************)
Keys == DOMAIN ZeroSummary

\* The sum of a count over the batches whose wrapper returned.
RECURSIVE SumOk(_, _)
SumOk(outcomes, key) ==
    IF outcomes = <<>> THEN 0
    ELSE (IF Head(outcomes).ok THEN Head(outcomes).summary[key] ELSE 0)
         + SumOk(Tail(outcomes), key)

\* The number of batches whose wrapper raised.
RaisedCount(outcomes) == Cardinality({k \in 1..Len(outcomes) : ~outcomes[k].ok})

\* ceil(n / batch_size)
Batches(n) == (n + BatchSize - 1) \div BatchSize

Loaders == {i \in Inst : mode \in LoadModes /\ hs[i].pc # "off"}

\* C1: save_events goes through every batch whatever the batches' outcomes
\* are, and returns a summary in which each count is the sum of that count
\* over the batches whose wrapper returned; what a batch counted before its
\* wrapper raised is in no count.
C1_SumOfSuccessfulBatches ==
    \A i \in Loaders :
        /\ \A key \in Keys : hs[i].total[key] = SumOk(hs[i].outcomes, key)
        /\ hs[i].pc = "done" =>
              /\ hs[i].returned = hs[i].total
              /\ Len(hs[i].outcomes) = Batches(Len(hs[i].events))

\* A run of three batches returned: one batch had counted an artist when
\* its wrapper raised, another one's count is in the summary.
C1_Witness ==
    \E i \in Loaders :
        /\ hs[i].pc = "done" /\ Len(hs[i].outcomes) = 3
        /\ \E k \in 1..3 : ~hs[i].outcomes[k].ok
                           /\ hs[i].outcomes[k].summary["artists_created"] > 0
        /\ \E k \in 1..3 : hs[i].outcomes[k].ok
                           /\ hs[i].outcomes[k].summary["artists_created"] > 0
        /\ hs[i].returned["artists_created"] > 0

\* C2: the summary save_events returns holds the number of failed batches,
\* which is the number of batches whose wrapper raised.
C2_SummaryReportsFailedBatches ==
    \A i \in Loaders :
        hs[i].pc = "done" =>
            /\ "failed_batches" \in DOMAIN hs[i].returned
            /\ hs[i].returned["failed_batches"] = RaisedCount(hs[i].outcomes)

\* Instance i is in, or has finished, the second load of records of which
\* every batch of the first load succeeded.
SecondLoad(i) == hs[i].run = 2 /\ hs[i].pc # "start" /\ hs[i].first.failed = 0

\* No row was committed since the load began.
NoNewRows(i) == \A t \in Tables : Ids(db[t]) \subseteq Ids(hs[i].base[t])

HrefsPresent(events) ==
    \A k \in 1..Len(events) :
        events[k].event_data.wwoz_event_href \notin {UNSET, NULL, ""}

\* The table an upsert method writes.
TableOf(op) ==
    CASE op = "genre" -> "genres" [] op = "artist" -> "artists"
      [] op = "venue" -> "venues" [] OTHER -> "events"

C4_CountsAreRowsInserted ==
    \A i \in Loaders :
        (hs[i].pc = "done" /\ hs[i].failed = 0) =>
            \A key \in Keys :
                LET t == CASE key = "artists_created" -> "artists"
                           [] key = "venues_created" -> "venues"
                           [] key = "genres_created" -> "genres"
                           [] OTHER -> "events"
                IN  hs[i].returned[key] = Cardinality(Ids(db[t]) \ Ids(hs[i].base[t]))


(***************************************************************************)
(* Properties of the retry wrapper                                         *)
(***************************************************************************)
\* The calls of _process_event_batch_with_retry that ended, of all loaders.
Ended == UNION {{hs[i].outcomes[k] : k \in 1..Len(hs[i].outcomes)} : i \in Loaders}

\* C11: for every batch the wrapper makes at most 3 attempts and then ends,
\* returning the summary of a successful attempt or raising; it never
\* returns without a summary, and no attempt follows the third.
C11_AtMostThreeAttempts ==
    /\ \A i \in Loaders : hs[i].attempt < MaxRetries
    /\ \A o \in Ended :
        /\ o.attempts \in 1..MaxRetries
        /\ o.end \in {"returned", "raised"}
        /\ o.end = "returned" => DOMAIN o.summary = Keys
        /\ o.end = "raised" => o.err # NULL

\* A batch whose three attempts all failed on a lock conflict was given up.
C11_Witness ==
    \E o \in Ended : o.attempts = MaxRetries /\ o.end = "raised" /\ IsTransient(o.err)

\* The words that make an error transient.
TransientWords == {"deadlock", "lock timeout", "concurrent update"}

\* The text of the error names a lock conflict, in whatever case.
NamesLockConflict(msg) == \E w \in TransientWords : Contains(Lower(msg), w)

\* C12: a failed attempt is followed by another attempt exactly when its
\* error text contains "deadlock", "lock timeout" or "concurrent update" in
\* whatever case and fewer than 3 attempts have been made; an attempt that
\* failed with any other error is the last: the error goes to save_events
\* at once, without a sleep.
C12_RetriedIffTransient ==
    [][\A i \in Loaders :
         (hs[i].pc = "caught" /\ hs'[i] # hs[i]) =>
            IF NamesLockConflict(hs[i].err) /\ hs[i].attempt + 1 < 3
            THEN /\ hs'[i].pc = "attempt"
                 /\ hs'[i].attempt = hs[i].attempt + 1
                 /\ hs'[i].slept > hs[i].slept
                 /\ hs'[i].outcomes = hs[i].outcomes
            ELSE /\ hs'[i].pc = "batches"
                 /\ hs'[i].failed = hs[i].failed + 1
                 /\ Len(hs'[i].outcomes) = Len(hs[i].outcomes) + 1
                 /\ LET o == hs'[i].outcomes[Len(hs'[i].outcomes)]
                    IN  /\ o.end = "raised" /\ o.err = hs[i].err
                        /\ o.attempts = hs[i].attempt + 1
                        /\ o.slept = hs[i].slept
                        /\ (~NamesLockConflict(o.err) /\ o.attempts = 1) => o.slept = 0]_vars

\* A batch is in its third attempt after a lock timeout worded in title
\* case.
C12_Witness ==
    \E i \in Loaders :
        /\ hs[i].pc = "attempt" /\ hs[i].attempt = 2
        /\ hs[i].err = SessionError(LockTimeoutTitled)


(***************************************************************************)
(* Properties of a batch's transaction                                     *)
(***************************************************************************)
\* The committed tables hold the rows of record e: its genres, its artist,
\* its venue, its related artists with their relations, and its event (the
\* event with its href, or without an href the event of its artist and venue).
RecordStored(e) ==
    LET href == IF e.event_data.wwoz_event_href = UNSET THEN ""
                ELSE e.event_data.wwoz_event_href
        related == {e.event_data.related_artists[k] :
                      k \in 1..Len(e.event_data.related_artists)}
    IN  /\ \A g \in AllGenres(<<e>>) : \E row \in db["genres"] : row.name = g
        /\ \E a \in db["artists"] : a.name = e.artist_data.name
        /\ \E v \in db["venues"] : VenueMatch(v, VenueData(e.venue_data))
        /\ \A name \in related :
             \E a, b \in db["artists"], x \in db["artist_relations"] :
                /\ a.name = e.artist_data.name /\ b.name = name
                /\ x.artist_id = a.id /\ x.related_artist_id = b.id
        /\ \E ev \in db["events"] :
             /\ ev.wwoz_event_href = href
             /\ TruthyStr(href) \/ (/\ ev.artist_name = e.artist_data.name
                                    /\ ev.venue_name = e.venue_data.name)

\* The records of the batch that starts at record start.
BatchOf(events, start) ==
    {events[k] : k \in start..LastOf([start |-> start, events |-> events])}

\* C13: each batch is all or nothing.  Between two batches and after
\* save_events, the rows of every record of a batch that succeeded are
\* committed, and a batch that failed left the committed tables as they were
\* when it began, the rows of the run's other batches included.
C13_BatchAllOrNothing ==
    \A i \in Loaders :
        hs[i].pc \in {"batches", "done"} =>
            /\ \A k \in 1..Len(hs[i].outcomes) :
                 hs[i].outcomes[k].ok =>
                    \A e \in BatchOf(hs[i].events, hs[i].outcomes[k].start) : RecordStored(e)
            /\ (hs[i].outcomes # <<>> /\ ~hs[i].outcomes[Len(hs[i].outcomes)].ok) =>
                 db = hs[i].before

\* Of three batches the second failed after it had inserted its related
\* artist: that artist is not committed, those of the other two are.
C13_Witness ==
    \E i \in Loaders :
        /\ hs[i].pc = "done" /\ Len(hs[i].outcomes) = 3
        /\ hs[i].outcomes[1].ok /\ hs[i].outcomes[3].ok
        /\ ~hs[i].outcomes[2].ok
        /\ hs[i].outcomes[2].summary["artists_created"] > 0
        /\ {a.name : a \in db["artists"]} \cap {"Related 0", "Related 1", "Related 2"}
             = {"Related 0", "Related 2"}


(***************************************************************************)
(* Properties of the batches                                               *)
(***************************************************************************)
\* The batches of the outcomes, one after the other.
RECURSIVE Concatenated(_)
Concatenated(outcomes) ==
    IF outcomes = <<>> THEN <<>> ELSE Head(outcomes).batch \o Concatenated(Tail(outcomes))

\* C14: for n records save_events forms ceil(n/5) batches, consecutive
\* slices of the input: each but the last has 5 records, none has more than
\* 5 or none, and the batches in order make up the input list.
C14_BatchesPartitionInput ==
    \A i \in Loaders :
        LET n == Len(hs[i].events)
            done == hs[i].outcomes
        IN  /\ \A k \in 1..Len(done) :
                 /\ Len(done[k].batch) \in 1..5
                 /\ k < Len(done) => Len(done[k].batch) = 5
                 /\ done[k].batch = SubSeq(hs[i].events, 5 * (k - 1) + 1,
                                           5 * (k - 1) + Len(done[k].batch))
            /\ hs[i].pc = "done" =>
                 /\ Len(done) = (n + 4) \div 5
                 /\ Concatenated(done) = hs[i].events

\* Eleven records went through as batches of 5, 5 and 1.
C14_Witness ==
    \E i \in Loaders :
        /\ hs[i].pc = "done" /\ Len(hs[i].events) = 11
        /\ [k \in 1..Len(hs[i].outcomes) |-> Len(hs[i].outcomes[k].batch)] = <<5, 5, 1>>


(***************************************************************************)
(* Properties of the pre-seeding of genres                                 *)
(***************************************************************************)
\* The genre names the records name.
NamedGenres(events) ==
    UNION {{events[k].event_data.genres[j] : j \in DOMAIN events[k].event_data.genres} :
             k \in DOMAIN events}

\* C15: save_events pre-seeds the genres once, over the whole list, and the
\* pre-seeding has committed or rolled back when the first attempt of a
\* batch starts; a pre-seeding that committed upserted the union of the
\* records' genre names, and they are all committed then.
C15_PreseedOnceBeforeBatches ==
    \A i \in Loaders :
        /\ hs[i].pc = "preseed" => (hs[i].outcomes = <<>> /\ hs[i].start = 1)
        /\ hs[i].pc \notin {"start", "preseed"} =>
             /\ hs[i].seeded.calls = 1
             /\ hs[i].seeded.end = "empty" <=> NamedGenres(hs[i].events) = {}
             /\ hs[i].seeded.end \in {"commit", "rollback", "empty"}
             /\ hs[i].seeded.end = "commit" =>
                  /\ hs[i].seeded.names = NamedGenres(hs[i].events)
                  /\ \A g \in NamedGenres(hs[i].events) : \E row \in db["genres"] : row.name = g

\* The first batch starts after a pre-seeding of two genres committed.
C15_Witness ==
    \E i \in Loaders :
        /\ hs[i].pc = "attempt" /\ hs[i].outcomes = <<>>
        /\ hs[i].seeded.end = "commit" /\ hs[i].seeded.names = {"Jazz", "Blues"}


(***************************************************************************)
(* Properties of the embeddings                                            *)
(***************************************************************************)
\* C16: a failure of the Embedding Provider while an event is created does
\* not fail the batch: the failure is not raised, and unless the INSERT
\* itself is refused upsert_event returns the event it inserted, whose
\* description_embedding and event_text_embedding are both null, also when
\* the first encode succeeded and the second failed.
C16_EmbeddingFailureKeepsEvent ==
    \A i \in Loaders :
        (fr[i].op = "event" /\ fr[i].embed # 0) =>
            /\ hs[i].pc = "event"
            /\ fr[i].exc # EmbeddingFailed
            /\ fr[i].exc = NULL =>
                 /\ fr[i].pc = "ret" /\ fr[i].path = "created"
                 /\ \E e \in tx[i].ins["events"] :
                      /\ e.id = fr[i].ret
                      /\ e.description_embedding = NULL
                      /\ e.event_text_embedding = NULL

\* An event with a description was inserted after the encode of its
\* description succeeded and the encode of the combined text failed.
C16_Witness ==
    \E i \in Loaders :
        /\ fr[i].op = "event" /\ fr[i].pc = "ret" /\ fr[i].embed = 2
        /\ TruthyStr(fr[i].arg.description)
        /\ \E e \in tx[i].ins["events"] : e.id = fr[i].ret


(***************************************************************************)
(* Properties of geocode_address                                           *)
(***************************************************************************)
\* The calls of geocode_address that ended.
Geocoded == {i \in Inst : mode = "geocode" /\ hs[i].pc = "end"}

\* C17: geocode_address raises for no address, string or null; it returns
\* a latitude and a longitude, and they are the default coordinates when
\* the address is empty, blank or a streaming address, when no API key is
\* configured, when the provider's status is not OK, and when the request
\* throws.
C17_GeocodeNeverRaises ==
    \A i \in Geocoded :
        /\ ~hs[i].out.raised
        /\ DOMAIN hs[i].out.value = {"latitude", "longitude"}
        /\ (\/ hs[i].address \in {NULL, ""}
            \/ \A k \in 1..Len(hs[i].address) : SubSeq(hs[i].address, k, k) \in {" ", "\t", "\n"}
            \/ \E k \in 1..(Len(hs[i].address) - 9) :
                 SubSeq(hs[i].address, k, k + 9) = ".Streaming"
            \/ hs[i].key \in {NULL, ""}
            \/ hs[i].resp.throws
            \/ hs[i].resp.status # "OK")
           => hs[i].out.value = DefaultCoords

\* A call with a street address and an API key ended after the request
\* threw.
C17_Witness ==
    \E i \in Geocoded :
        /\ hs[i].address = "532 Frenchmen St" /\ hs[i].key = "key" /\ hs[i].resp.throws
        /\ hs[i].out.value = DefaultCoords


(***************************************************************************)
(* Properties of save_events' errors                                       *)
(***************************************************************************)
\* The batches of loader i whose wrapper raised an error that is not
\* transient.
FatalBatches(i) ==
    {k \in DOMAIN hs[i].outcomes :
        hs[i].outcomes[k].end = "raised" /\ ~IsTransient(hs[i].outcomes[k].err)}

\* C18: a fatal error of a batch is propagated to the caller of
\* save_events, never absorbed into a normal return: save_events does not
\* return its summary after a batch whose wrapper raised an error that is
\* not transient.
C18_FatalErrorPropagates ==
    \A i \in Loaders : FatalBatches(i) # {} => hs[i].pc # "done"


(***************************************************************************)
(* Properties of extract_date_from_s3_key                                  *)
(***************************************************************************)
\* The calls of extract_date_from_s3_key that ended.
Extracted == {i \in Inst : mode = "extract" /\ hs[i].pc = "end"}

\* The dates a pattern finds in a key.
DatesIn(s, pat) ==
    IF s = NULL THEN {}
    ELSE {IF pat = PathPattern THEN PathDate(s, k)
          ELSE IF pat = FilenamePattern THEN FilenameDate(s, k)
          ELSE StampDate(s, k) : k \in {l \in 1..Len(s) : Matches(s, l, pat)}}

\* YYYY-MM-DD
IsDate(v) ==
    /\ Len(v) = 10
    /\ \A j \in 1..10 :
         IF j \in {5, 8} THEN SubSeq(v, j, j) = "-" ELSE SubSeq(v, j, j) \in Digits

\* C19: extract_date_from_s3_key returns the date of the first pattern that
\* matches, the path raw_events/YYYY/MM/DD/ before the filename
\* event_data_YYYY-MM-DD_ before _YYYYMMDD_, written YYYY-MM-DD; a path date
\* wins over the other dates of the key, and a key that matches no pattern
\* gives None.
C19_FirstPatternWins ==
    \A i \in Extracted :
        LET key == hs[i].s3_key
            out == hs[i].out
        IN  /\ DatesIn(key, PathPattern) # {} => out \in DatesIn(key, PathPattern)
            /\ (DatesIn(key, PathPattern) = {} /\ DatesIn(key, FilenamePattern) # {})
                 => out \in DatesIn(key, FilenamePattern)
            /\ (DatesIn(key, PathPattern) = {} /\ DatesIn(key, FilenamePattern) = {}
                  /\ DatesIn(key, StampPattern) # {})
                 => out \in DatesIn(key, StampPattern)
            /\ (\A pat \in {PathPattern, FilenamePattern, StampPattern} :
                  DatesIn(key, pat) = {}) <=> out = NULL
            /\ out # NULL => IsDate(out)

\* The key whose path, filename and stamp carry three different dates gave
\* the date of the path.
C19_Witness ==
    \E i \in Extracted :
        /\ hs[i].s3_key = "raw_events/2025/03/22/event_data_2025-03-21_20250320_090000.json"
        /\ hs[i].out = "2025-03-22"


(***************************************************************************)
(* Properties of the backfill                                              *)
(***************************************************************************)
\* The backfills of service i that ended.
Backfilled(i) ==
    IF mode = "backfill" /\ hs[i].pc # "off"
    THEN {kind \in DOMAIN hs[i].ended : hs[i].ended[kind].done}
    ELSE {}

\* The entities of a kind whose generation raised, and those left with an
\* embedding.
RaisedIn(i, kind) ==
    {k \in DOMAIN hs[i].entities[kind] : hs[i].entities[kind][k].outcome = "raise"}
FilledIn(i, kind) ==
    {k \in DOMAIN hs[i].entities[kind] : hs[i].entities[kind][k].embedding # NULL}

ContentionErrors == {DeadlockDetected, LockTimeout, LockTimeoutTitled, ConcurrentUpdate}

\* C21: when a statement of a batch attempt, the atomic INSERT of an upsert
\* method included, fails with a deadlock, a lock timeout or a concurrent
\* update, the attempt fails with an error the wrapper holds transient, so
\* that the batch is attempted again while attempts remain.
C21_ContentionIsTransient ==
    [][\A i \in Loaders :
         (hs[i].pc # "caught" /\ hs'[i].pc = "caught" /\ fr[i].fault \in ContentionErrors)
            => IsTransient(hs'[i].err)]_vars


(***************************************************************************)
(* Properties of the order of the batches and of the records               *)
(***************************************************************************)
\* Loader i is inside the wrapper's call for a batch.
InBatch(i) == hs[i].pc \notin {"off", "start", "preseed", "batches", "done"}

\* The record an upsert method was entered for: the method's arguments are
\* those of record k.
FrameOfRecord(i, k) ==
    LET e == hs[i].events[k]
    IN  CASE fr[i].op = "artist" -> fr[i].raw = e.artist_data
          [] fr[i].op = "venue" -> fr[i].raw = e.venue_data
          [] fr[i].op = "event" ->
               fr[i].raw.wwoz_event_href = e.event_data.wwoz_event_href
          [] OTHER -> TRUE

\* C22: the batches of one save_events call are handled one after another
\* in the order of the input: a batch is attempted only when every batch
\* before it has succeeded or been given up, each batch is handed to the
\* wrapper once whatever the outcomes before it, and within an attempt the
\* records are processed in the order of the input.
C22_BatchesAndRecordsInOrder ==
    [][\A i \in Loaders :
         /\ \A b \in 1..Len(hs[i].outcomes) :
              hs[i].outcomes[b].start = (b - 1) * BatchSize + 1
         /\ InBatch(i) =>
              /\ hs[i].start = Len(hs[i].outcomes) * BatchSize + 1
              /\ hs[i].start <= Len(hs[i].events)
         /\ (InBatch(i) /\ hs[i].pc # "attempt" /\ hs[i].pc # "caught") =>
              /\ hs[i].k \in hs[i].start..(LastOf(hs[i]) + 1)
              /\ hs[i].k <= LastOf(hs[i]) => FrameOfRecord(i, hs[i].k)
         /\ (InBatch(i) /\ InBatch(i)' /\ hs'[i].k # hs[i].k) =>
              \/ hs'[i].k = hs[i].k + 1 /\ hs[i].pc = "event"
              \/ hs'[i].k = hs'[i].start /\ hs[i].pc = "attempt"
         /\ Len(hs'[i].outcomes) > Len(hs[i].outcomes) =>
              /\ Len(hs'[i].outcomes) = Len(hs[i].outcomes) + 1
              /\ hs'[i].outcomes[Len(hs'[i].outcomes)].start = hs[i].start]_vars

\* A load of three batches is done: the first batch was given up, the
\* second one succeeded.
C22_Witness ==
    \E i \in Loaders :
        /\ hs[i].pc = "done" /\ Len(hs[i].outcomes) = 3
        /\ ~hs[i].outcomes[1].ok /\ hs[i].outcomes[2].ok
        /\ Len(hs[i].outcomes[2].batch) = BatchSize /\ hs[i].outcomes[3].ok

\* --------------------------------------------------------------------------
\* Properties of the waits between the attempts of a batch
\* --------------------------------------------------------------------------

\* What the wrapper has slept, in hundredths of a second, when it starts the
\* attempt with this index: nothing, then 100 ms, then 100 ms and 250 ms.
SleptBefore(attempt) == CASE attempt = 0 -> 0 [] attempt = 1 -> 10 [] attempt = 2 -> 35

\* C23: between two consecutive attempts of a batch there is exactly one
\* wait; the wait after the failed attempt with index 0 lasts 100 ms and the
\* one after index 1 lasts 250 ms; nothing is slept after a successful
\* attempt, after a fatal failure or after the third attempt.
C23_OneWaitBetweenAttempts ==
    [][\A i \in Loaders :
         /\ InBatch(i) => /\ hs[i].attempt \in 0..(MaxRetries - 1)
                          /\ hs[i].slept = SleptBefore(hs[i].attempt)
         /\ (InBatch(i) /\ InBatch(i)' /\ hs'[i].attempt # hs[i].attempt) =>
              /\ hs[i].pc = "caught" /\ IsTransient(hs[i].err)
              /\ hs'[i].attempt = hs[i].attempt + 1
              /\ hs'[i].slept - hs[i].slept = (IF hs[i].attempt = 0 THEN 10 ELSE 25)
              /\ hs'[i].slept - hs[i].slept > 0
         /\ (InBatch(i) /\ hs'[i].attempt = hs[i].attempt) => hs'[i].slept = hs[i].slept
         /\ Len(hs'[i].outcomes) > Len(hs[i].outcomes) =>
              LET o == hs'[i].outcomes[Len(hs'[i].outcomes)]
              IN  /\ o.attempts = hs[i].attempt + 1
                  /\ o.slept = SleptBefore(hs[i].attempt)]_vars

\* A batch succeeded at its third attempt, after both waits.
C23_Witness ==
    \E i \in Loaders :
        \E b \in 1..Len(hs[i].outcomes) :
            /\ hs[i].outcomes[b].attempts = MaxRetries
            /\ hs[i].outcomes[b].slept = 35
            /\ hs[i].outcomes[b].ok

\* Two loaders sleep after failures caught at the same instant and at the
\* same attempt index.
FailedTogether(i, j) ==
    /\ i # j
    /\ hs[i].pc = "attempt" /\ hs[j].pc = "attempt"
    /\ hs[i].attempt > 0 /\ hs[i].attempt = hs[j].attempt
    /\ hs[i].wake.at = hs[j].wake.at

\* C24: two loaders whose attempts fail transiently at the same instant and
\* at the same attempt index do not wait the same delay, and so do not try
\* again at the same instant.
C24_JitterDesynchronises ==
    \A i, j \in Loaders : FailedTogether(i, j) => hs[i].wake.plus # hs[j].wake.plus

\* --------------------------------------------------------------------------
\* Properties of the updates of stored rows
\* --------------------------------------------------------------------------
ArtistFields == {"wwoz_artist_href", "description", "website"}

\* The artist rows of the name of instance i's call before a step, paired
\* with what instance i's session holds of them after the step.
ArtistWrites(i) ==
    {w \in {a \in View(i, "artists") : a.name = fr[i].arg.name}
              \X (tx'[i].upd["artists"] \cup tx'[i].ins["artists"]) :
        w[1].id = w[2].id}

\* C25 as stated: in any upsert_artist call a field among href, description
\* and website that already holds a non-null value keeps that value, and
\* only fields that are still null are filled in.
C25_AppendOnly ==
    [][\A i \in Inst :
         (fr[i].op = "artist" /\ fr[i].pc = "a_insert") =>
            \A w \in ArtistWrites(i) : \A f \in ArtistFields :
               w[1][f] # NULL => w[2][f] = w[1][f]]_vars

\* C25, amended: a field that already holds a non-null value is never set
\* to null: it keeps its value when the call's artist_data holds None for
\* the field and may take the artist_data's value otherwise; a field that is
\* still null takes the artist_data's value.
C25_NeverLosesToNull ==
    [][\A i \in Inst :
         (fr[i].op = "artist" /\ fr[i].pc \notin {"idle", "ret", "raised"}) =>
            \A w \in ArtistWrites(i) : \A f \in ArtistFields :
               /\ w[1][f] # NULL => w[2][f] # NULL /\ w[2][f] \in {w[1][f], fr[i].arg[f]}
               /\ (w[1][f] # NULL /\ fr[i].arg[f] = NULL) => w[2][f] = w[1][f]
               /\ w[1][f] = NULL => w[2][f] = fr[i].arg[f]]_vars

\* The artist of the earlier load holds the description a call filled in
\* and the href another call supplied in place of the stored one.
C25_Witness ==
    /\ mode = "artist"
    /\ \E a \in db["artists"] :
         /\ a.id = SeedArtist.id
         /\ a.description = "D1"
         /\ a.wwoz_artist_href = "/artists/2"

\* The event rows of the href of instance i's call before a step, paired
\* with what instance i's session holds of them after the step.
EventWrites(i) ==
    {w \in {e \in View(i, "events") : /\ TruthyStr(fr[i].arg.wwoz_event_href)
                                      /\ e.wwoz_event_href = fr[i].arg.wwoz_event_href}
              \X (tx'[i].upd["events"] \cup tx'[i].ins["events"]) :
        w[1].id = w[2].id}

\* C26: upsert_event on an href that already has an event row changes
\* nothing on that row except the description, and that only when the
\* stored description is empty and the record supplies one; the other
\* fields and both embeddings stay as they are, and the call does not reach
\* the creation of an event, where the embeddings are requested.
C26_ExistingEventKept ==
    [][\A i \in Inst :
         (fr[i].op = "event" /\ fr[i].pc \notin {"idle", "ret", "raised"}) =>
            /\ \A w \in EventWrites(i) :
                 /\ [w[2] EXCEPT !.description = w[1].description] = w[1]
                 /\ w[2].description # w[1].description =>
                      /\ ~TruthyStr(w[1].description)
                      /\ TruthyStr(fr[i].arg.description)
                      /\ w[2].description = fr[i].arg.description
            /\ (fr[i].pc = "e_lookup" /\ fr'[i].pc = "e_insert") =>
                 \A e \in View(i, "events") :
                    e.wwoz_event_href # fr[i].arg.wwoz_event_href]_vars

\* A call found the event and gave it the description it lacked.
C26_Witness ==
    \E i \in Inst :
        /\ fr[i].op = "event" /\ fr[i].pc = "ret" /\ fr[i].path = "backfill"
        /\ \E e \in tx[i].upd["events"] :
             /\ e.id = fr[i].ret
             /\ e.description = fr[i].arg.description
             /\ e.event_text_embedding # NULL

\* --------------------------------------------------------------------------
\* Properties of the related artists
\* --------------------------------------------------------------------------
NamedArtists(name) == {a \in db["artists"] : a.name = name}

\* The committed relations from an artist of one name to an artist of
\* another.
Edges(primary, related) ==
    {x \in db["artist_relations"] :
        \E a \in NamedArtists(primary), b \in NamedArtists(related) :
            x.artist_id = a.id /\ x.related_artist_id = b.id}

\* The (primary, related) pairs of names in a list of records.
RelatedPairs(events) ==
    UNION {{<<events[k].artist_data.name, events[k].event_data.related_artists[r]>> :
              r \in 1..Len(events[k].event_data.related_artists)} : k \in 1..Len(events)}

\* No artist name and no pair is stored twice, and the batches committed
\* have one artist row for each related artist they name and one relation
\* from the primary artist to it.
StoredOnce ==
    /\ \A a, b \in db["artists"] : a.name = b.name => a = b
    /\ \A x, y \in db["artist_relations"] :
         (x.artist_id = y.artist_id /\ x.related_artist_id = y.related_artist_id) => x = y
    /\ \A i \in Loaders : \A b \in 1..Len(hs[i].outcomes) :
         hs[i].outcomes[b].ok =>
            \A p \in RelatedPairs(hs[i].outcomes[b].batch) :
               /\ Cardinality(NamedArtists(p[2])) = 1
               /\ Cardinality(Edges(p[1], p[2])) = 1

\* C27: after any number of sequential loads there is exactly one artist
\* row of the name of a related artist and exactly one relation from the
\* primary artist to it; the stub and the relation are inserted only when
\* absent, so that neither INSERT raises, also when the pair occurs again
\* within the batch.
C27_OneStubOneEdge ==
    [][/\ StoredOnce'
       /\ \A i \in Loaders :
            hs[i].pc \in {"stub", "edge"} => fr'[i].pc # "raised"]_vars

\* The second load of three batches is done; every record of a batch names
\* the same primary artist and the same related artist, and no batch
\* failed in either load.
C27_Witness ==
    \E i \in Loaders :
        /\ mode = "load"
        /\ hs[i].pc = "done" /\ hs[i].run = 2
        /\ hs[i].events = ManyRecords
        /\ hs[i].failed = 0 /\ hs[i].first.failed = 0
        /\ Cardinality(db["artist_relations"]) = 3

\* C28: when two loaders at once process records that name the same unseen
\* related artist, or the same unseen pair, one artist row of that name and
\* one relation of each pair result under every interleaving, and neither
\* loader's INSERT of the stub or of the relation fails because of the
\* other's: no batch fails.
C28_RelatedArtistRaceSafe ==
    [][(mode = "race" /\ \A i \in Loaders : RelatedPairs(hs[i].events) # {}) =>
         /\ StoredOnce'
         /\ \A i \in Loaders :
              /\ hs[i].pc \in {"stub", "edge"} => fr'[i].pc # "raised"
              /\ hs'[i].failed = 0]_vars

\* --------------------------------------------------------------------------
\* Properties of two loaders with the same event href
\* --------------------------------------------------------------------------

\* C29: when two loaders at once reconcile records with the same unseen
\* event href, the loader whose INSERT loses gets the winner's event row
\* from the fallback SELECT of upsert_event, and its batch commits with the
\* other records it holds: no batch fails.
C29_LoserObtainsWinnersRow ==
    [][(mode = "race" /\ \A i \in Loaders : RelatedPairs(hs[i].events) = {}) =>
         \A i \in Loaders :
            /\ (fr[i].pc = "e_except" /\ fr'[i] # fr[i]) =>
                 /\ fr'[i].pc = "ret"
                 /\ \E e \in db["events"] :
                      /\ e.id = fr'[i].ret
                      /\ e.wwoz_event_href = fr[i].arg.wwoz_event_href
            /\ hs'[i].failed = 0]_vars

\* --------------------------------------------------------------------------
\* Properties of the calls of the Geocoding Provider
\* --------------------------------------------------------------------------

\* C30: a call of upsert_venue calls the Geocoding Provider at most once on
\* every path, the path on which the INSERT raises and the fallback creates
\* the venue included, and not at all when the lookup finds a venue that
\* does not need geocoding.
C30_GeocodesAtMostOnce ==
    \A i \in Inst :
        fr[i].op = "venue" =>
            /\ fr[i].geo <= 1
            /\ (fr[i].pc = "ret" /\ fr[i].path = "lookup") => fr[i].geo = 0

\* --------------------------------------------------------------------------
\* Properties of the direction of the relations
\* --------------------------------------------------------------------------

\* The names of the artists a relation goes from and to, as instance i's
\* session sees the artists.
EdgeNames(i, x) ==
    {<<a.name, b.name>> : a \in {a \in View(i, "artists") : a.id = x.artist_id},
                          b \in {b \in View(i, "artists") : b.id = x.related_artist_id}}

\* C31: for every relation discovered in a record the loader inserts only
\* the relation from the record's primary artist to the related artist: a
\* step inserts at most one relation, that of the record and of the related
\* name in hand, and no relation is stored whose names, in that order, no
\* record gives.
C31_OnlyDirectedEdge ==
    [][\A i \in Loaders :
         LET new == tx'[i].ins["artist_relations"] \ tx[i].ins["artist_relations"]
             e == hs[i].events[hs[i].k]
         IN  /\ Cardinality(new) <= 1
             /\ \A x \in new :
                  /\ hs[i].pc = "edge"
                  /\ EdgeNames(i, x) = {<<e.artist_data.name, Head(hs[i].rq)>>}
                  /\ EdgeNames(i, x) \subseteq RelatedPairs(hs[i].events)
                  /\ <<Head(hs[i].rq), e.artist_data.name>> \notin EdgeNames(i, x)]_vars

\* A load committed the relation from the primary artist to the related
\* artist, and no relation the other way.
C31_Witness ==
    \E i \in Loaders :
        /\ hs[i].pc = "done"
        /\ \E x \in db["artist_relations"] :
             /\ EdgeNames(i, x) = {<<"Kermit Ruffins", "Rebirth Brass Band">>}
             /\ \A y \in db["artist_relations"] :
                  <<"Rebirth Brass Band", "Kermit Ruffins">> \notin EdgeNames(i, y)

\* --------------------------------------------------------------------------
\* Properties of a pre-seeding that fails
\* --------------------------------------------------------------------------

Created(t) == db[t] \cup UNION {tx[i].ins[t] : i \in Inst}

\* C34: an event the loader creates is indoors exactly when its venue's
\* lowercased name does not contain "outdoor" and streaming exactly when it
\* contains "streaming"; a venue the loader creates has its flags by the same
\* rule, and a new event at a venue the loader created has the venue's flags.
C34_FlagsFromVenueName ==
    [][\A i \in Inst :
         /\ \A e \in tx'[i].ins["events"] \ tx[i].ins["events"] :
              /\ e.is_indoors = ~Contains(Lower(e.venue_name), "outdoor")
              /\ e.is_streaming = Contains(Lower(e.venue_name), "streaming")
              /\ \A v \in Created("venues") :
                   v.id = e.venue_id =>
                      /\ v.name = e.venue_name
                      /\ e.is_indoors = v.is_indoors /\ e.is_streaming = v.is_streaming
         /\ \A v \in tx'[i].ins["venues"] \ tx[i].ins["venues"] :
              /\ v.is_indoors = ~Contains(Lower(v.name), "outdoor")
              /\ v.is_streaming = Contains(Lower(v.name), "streaming")]_vars

\* A load committed an outdoor event and a streaming event, each at the
\* venue it created.
C34_Witness ==
    /\ \E i \in Loaders : hs[i].pc = "done"
    /\ \E e \in Created("events") \cap db["events"], v \in Created("venues") \cap db["venues"] :
         v.id = e.venue_id /\ ~e.is_indoors /\ ~v.is_indoors /\ ~e.is_streaming
    /\ \E e \in Created("events") \cap db["events"], v \in Created("venues") \cap db["venues"] :
         v.id = e.venue_id /\ e.is_streaming /\ v.is_streaming /\ e.is_indoors


\* --------------------------------------------------------------------------
\* Properties of upsert_venue on a venue that exists
\* --------------------------------------------------------------------------
\* The venue has coordinates and was geocoded within the last 30 days.
Fresh(v) ==
    /\ TruthyFloat(v.latitude) /\ TruthyFloat(v.longitude)
    /\ v.last_geocoded # NoTime
    /\ Days(now - v.last_geocoded) <= StaleDays

\* C36: upsert_venue on a (name, full_address) that exists and does not
\* need geocoding changes no column of the venue, also when the record
\* supplies values for columns that are null: a step of the call that sees
\* the venue goes to no statement that writes, calls no geocoding, and
\* leaves the row as it is.
C36_FreshVenueUntouched ==
    [][\A i \in Inst :
         (mode = "venue" /\ fr[i].pc \in {"v_lookup", "v_except"} /\ fr'[i] # fr[i]) =>
         \A v \in {v \in View(i, "venues") : VenueMatch(v, fr[i].arg)} :
            Fresh(v) =>
                /\ fr'[i].pc \in {"ret", "raised", "v_except"}
                /\ fr'[i].geo = fr[i].geo
                /\ tx'[i].ins["venues"] \subseteq tx[i].ins["venues"]
                /\ tx'[i].upd["venues"] \subseteq tx[i].upd["venues"]
                /\ db' = db
                /\ fr'[i].pc = "ret" =>
                     /\ fr'[i].ret = v.id
                     /\ v \in View(i, "venues")']_vars

\* upsert_venue returned a venue it found, whose phone number is null,
\* for a record that supplies a phone number.
C36_Witness ==
    \E i \in Inst :
        /\ mode = "venue" /\ fr[i].pc = "ret" /\ fr[i].path = "lookup"
        /\ fr[i].arg.phone_number = "504-895-8477"
        /\ \E v \in View(i, "venues") :
             /\ v.id = fr[i].ret /\ VenueMatch(v, fr[i].arg)
             /\ v.phone_number = NULL /\ Fresh(v)


\* --------------------------------------------------------------------------
\* Properties of a batch that succeeds after a retry
\* --------------------------------------------------------------------------
\* C37: a batch that succeeds on its second or third attempt commits the
\* rows of that attempt only and contributes that attempt's summary only.
\* When it commits, the committed tables are still those the batch began
\* with; the commit adds the rows the attempt's session inserted and no
\* other; the counts added to the totals are those of the attempt, none
\* above the rows the attempt inserted.
C37_OnlySuccessfulAttemptCounts ==
    [][\A i \in Inst :
         (/\ mode \in LoadModes /\ hs[i].pc = "record" /\ hs'[i].pc = "batches"
          /\ hs[i].attempt >= 1) =>
            /\ db = hs[i].before
            /\ \A t \in Tables :
                 /\ Ids(db'[t]) \ Ids(hs[i].before[t]) = Ids(tx[i].ins[t])
                 /\ Cardinality(db'[t]) = Cardinality(hs[i].before[t]) + Cardinality(tx[i].ins[t])
            /\ tx'[i] = NoSession
            /\ hs'[i].total = Aggregate(hs[i].total, hs[i].summary)
            /\ hs[i].summary.artists_created <= Cardinality(tx[i].ins["artists"])
            /\ hs[i].summary.venues_created <= Cardinality(tx[i].ins["venues"])
            /\ hs[i].summary.events_created <= Cardinality(tx[i].ins["events"])
            /\ hs[i].summary.genres_created <= Cardinality(tx[i].ins["genres"])]_vars

\* The batch inserted its related artist, failed, and succeeded on a later
\* attempt: the artist is committed once and counted once.
C37_Witness ==
    \E i \in Loaders :
        /\ hs[i].pc = "done" /\ Len(hs[i].outcomes) = 1
        /\ hs[i].outcomes[1].ok /\ hs[i].outcomes[1].attempts >= 2
        /\ hs[i].outcomes[1].summary.artists_created = 1
        /\ hs[i].total.artists_created = 1
        /\ Cardinality({a \in db["artists"] : a.name = "Rebirth Brass Band"}) = 1
        /\ hs[i].base["artists"] = {}


\* --------------------------------------------------------------------------
\* Properties of an event without an href
\* --------------------------------------------------------------------------
\* C38: for a record whose event href is empty or absent upsert_event makes
\* no lookup and goes to the insert of a new row; the event it returns is a
\* row it inserted in this call, never a row that was there before, the row
\* of an earlier load of the same record included.
C38_NoHrefNeverResolved ==
    [][\A i \in Inst :
         (/\ mode \in LoadModes /\ fr[i].op = "event"
          /\ ~TruthyStr(fr[i].arg.wwoz_event_href)) =>
            /\ fr[i].pc \in {"e_insert", "e_except", "ret", "raised"}
            /\ (fr[i].pc # "ret" /\ fr'[i].pc = "ret") =>
                 /\ fr[i].pc = "e_insert"
                 /\ fr'[i].path = "created"
                 /\ fr'[i].ret \notin Ids(View(i, "events"))
                 /\ fr'[i].ret \in Ids(tx'[i].ins["events"])]_vars

\* The second load of a record without an href has been given a new event
\* while the event of the first load, with the same href, is committed.
C38_Witness ==
    \E i \in Loaders :
        /\ hs[i].run = 2 /\ fr[i].op = "event" /\ fr[i].pc = "ret"
        /\ ~TruthyStr(fr[i].arg.wwoz_event_href)
        /\ \E e \in db["events"] :
             /\ e.wwoz_event_href = fr[i].arg.wwoz_event_href
             /\ e.artist_name = fr[i].arg.artist.name
             /\ e.id # fr[i].ret


\* --------------------------------------------------------------------------
\* Properties of the sessions of save_events
\* --------------------------------------------------------------------------
\* C39: a loader has no session open outside the pre-seeding and the
\* attempt of a batch: none between them, none while the wrapper handles an
\* error or sleeps, none when save_events has returned.  A session is
\* opened only when none is open.  A session whose body raised is rolled
\* back and closed, and the error that leaves it is a DatabaseError whose
\* message ends with the text of the error raised.
C39_OneSessionAlwaysClosed ==
    [][\A i \in Inst :
         mode \in LoadModes =>
            /\ hs[i].pc \in {"off", "start", "batches", "attempt", "caught", "done"}
                  => ~tx[i].open
            /\ (~tx[i].open /\ tx'[i].open) =>
                  /\ tx'[i] = NewSession
                  /\ \/ hs[i].pc = "start" /\ hs'[i].pc = "preseed"
                     \/ hs[i].pc = "attempt" /\ hs'[i].pc = "record"
            /\ (tx[i].open /\ tx'[i].open) =>
                  /\ hs[i].pc \notin {"start", "attempt"}
                  /\ hs'[i].pc \notin {"caught", "batches", "done"}
            /\ (tx[i].open /\ fr[i].pc = "raised" /\ hs[i].pc # "preseed"
                /\ <<hs'[i], fr'[i], tx'[i]>> # <<hs[i], fr[i], tx[i]>>) =>
                  /\ hs'[i].pc = "caught"
                  /\ tx'[i] = NoSession
                  /\ db' = db
                  /\ hs'[i].err = "Database session error: " \o fr[i].exc]_vars

\* A batch's session was rolled back and closed after a deadlock, and the
\* wrapper holds the DatabaseError with the deadlock's text.
C39_Witness ==
    \E i \in Loaders :
        /\ hs[i].pc = "caught" /\ ~tx[i].open
        /\ hs[i].err = "Database session error: " \o DeadlockDetected
        /\ hs[i].seeded.end = "commit"


(***************************************************************************)
(* create_tables and create_concurrency_indexes                            *)
(***************************************************************************)
\* The indexes create_concurrency_indexes names, in the order of its
\* statements.
IndexNames ==
    <<"idx_artists_name", "idx_venues_name_address", "idx_events_href",
      "idx_events_artist_venue", "idx_events_performance_time",
      "idx_artist_relations_unique", "idx_event_genres_event_id",
      "idx_event_genres_genre_id", "idx_artist_genres_artist_id",
      "idx_artist_genres_genre_id", "idx_venue_genres_venue_id",
      "idx_venue_genres_genre_id">>

\* The unique indexes the conflict clauses of the upserts name.
UpsertIndexes == {"idx_artists_name", "idx_venues_name_address", "idx_events_href"}

\* The server's errors for an index statement.
InTransactionBlock == "CREATE INDEX CONCURRENTLY cannot run inside a transaction block"
CouldNotCreate == "could not create unique index"

\* Instance 1 holds a call of create_tables: whether the tables (and, with
\* them, the indexes of an earlier call) exist, and whether the engine's
\* connections run in autocommit or inside the transaction of
\* engine.begin().
InitTables ==
    /\ mode = "tables"
    /\ now = 0
    /\ db = EmptyTables
    /\ nextId = 1
    /\ tx = [i \in Inst |-> NoSession]
    /\ faults = 0
    /\ fr = [i \in Inst |-> IdleFrame]
    /\ \E ex \in BOOLEAN, auto \in BOOLEAN, had \in {{}, UpsertIndexes} :
         /\ (~ex => had = {})
         /\ hs = [i \in Inst |->
                    [pc |-> IF i = 1 THEN "start" ELSE "off", existed |-> ex,
                     autocommit |-> auto, had |-> had, tables |-> ex, built |-> had,
                     aborted |-> FALSE, ran |-> FALSE, k |-> 1, error |-> "none"]]
    /\ hist = {}

\* create_tables up to the call of create_concurrency_indexes: the
\* extension, the check for the events table, create_all when it is absent.
\* A statement that fails leaves through the outer except as a
\* DatabaseError.
CreateTables(i) ==
    /\ mode = "tables"
    /\ hs[i].pc = "start"
    /\ \/ /\ hs' = [hs EXCEPT ![i].pc = "index", ![i].tables = TRUE, ![i].ran = TRUE]
          /\ UNCHANGED faults
       \/ /\ faults < FaultBudget
          /\ faults' = faults + 1
          /\ hs' = [hs EXCEPT ![i].pc = "raised",
                              ![i].error = "Failed to create tables: " \o CouldNotCreate]
    /\ UNCHANGED <<mode, now, db, tx, nextId, fr, hist>>

\* create_index_safe, the statement with CONCURRENTLY.  Inside a
\* transaction block the server refuses it and the transaction is aborted;
\* in autocommit it builds the index unless the statement fails.
IndexConcurrently(i) ==
    /\ mode = "tables"
    /\ hs[i].pc = "index"
    /\ hs[i].k <= Len(IndexNames)
    /\ IF ~hs[i].autocommit
       THEN /\ hs' = [hs EXCEPT ![i].pc = "caught", ![i].aborted = TRUE,
                                ![i].error = InTransactionBlock]
            /\ UNCHANGED faults
       ELSE \/ /\ hs' = [hs EXCEPT ![i].k = @ + 1,
                                   ![i].built = @ \cup {IndexNames[hs[i].k]}]
               /\ UNCHANGED faults
            \/ /\ faults < FaultBudget
               /\ faults' = faults + 1
               /\ hs' = [hs EXCEPT ![i].pc = "caught", ![i].error = CouldNotCreate]
    /\ UNCHANGED <<mode, now, db, tx, nextId, fr, hist>>

\* create_index_safe, its except branch: the statement again without
\* CONCURRENTLY when the message names the transaction block, the error
\* raised on otherwise.  A statement in an aborted transaction fails.
IndexFallback(i) ==
    /\ mode = "tables"
    /\ hs[i].pc = "caught"
    /\ IF Contains(hs[i].error, "cannot run inside a transaction block")
       THEN IF hs[i].aborted
            THEN hs' = [hs EXCEPT ![i].pc = "except", ![i].error = InFailedTransaction]
            ELSE hs' = [hs EXCEPT ![i].pc = "index", ![i].k = @ + 1,
                                  ![i].built = @ \cup {IndexNames[hs[i].k]},
                                  ![i].error = "none"]
       ELSE hs' = [hs EXCEPT ![i].pc = "except"]
    /\ UNCHANGED <<mode, now, db, tx, nextId, faults, fr, hist>>

\* create_concurrency_indexes, its except: a warning, nothing raised.
IndexesExcept(i) ==
    /\ mode = "tables"
    /\ hs[i].pc = "except"
    /\ hs' = [hs EXCEPT ![i].pc = "commit"]
    /\ UNCHANGED <<mode, now, db, tx, nextId, faults, fr, hist>>

\* create_concurrency_indexes after its last statement.
IndexesCreated(i) ==
    /\ mode = "tables"
    /\ hs[i].pc = "index"
    /\ hs[i].k > Len(IndexNames)
    /\ hs' = [hs EXCEPT ![i].pc = "commit"]
    /\ UNCHANGED <<mode, now, db, tx, nextId, faults, fr, hist>>

\* The end of engine.begin(): the commit, which for an aborted transaction
\* is a rollback, and the return of create_tables.
TablesCommit(i) ==
    /\ mode = "tables"
    /\ hs[i].pc = "commit"
    /\ hs' = [hs EXCEPT ![i].pc = "returned",
                        ![i].tables = IF hs[i].aborted THEN hs[i].existed ELSE @,
                        ![i].built = IF hs[i].aborted THEN hs[i].had ELSE @,
                        ![i].aborted = FALSE]
    /\ UNCHANGED <<mode, now, db, tx, nextId, faults, fr, hist>>

NextTables ==
    \E i \in Inst :
        \/ CreateTables(i)
        \/ IndexConcurrently(i)
        \/ IndexFallback(i)
        \/ IndexesExcept(i)
        \/ IndexesCreated(i)
        \/ TablesCommit(i)

SpecTables == InitTables /\ [][NextTables]_vars

\* --------------------------------------------------------------------------
\* Properties of create_tables
\* --------------------------------------------------------------------------

\* C33: whenever create_tables returns without raising, index creation has
\* been run, whether or not the tables existed, and the unique indexes on
\* artists(name), venues(name, full_address) and events(wwoz_event_href)
\* exist.
C33_ReturnsWithIndexes ==
    \A i \in Inst :
        (mode = "tables" /\ hs[i].pc = "returned") =>
            /\ hs[i].ran
            /\ hs[i].tables
            /\ UpsertIndexes \subseteq hs[i].built


(***************************************************************************)
(* The genre associations of an existing artist, venue or event            *)
(***************************************************************************)
\* The relationship Artist.genres, Venue.genres, Event.genres is loaded
\* lazily (models.py gives no loader strategy), and the upserts run on an
\* AsyncSession.  Replacing the collection of a persistent object makes the
\* ORM fetch the collection it replaces; outside a greenlet that fetch
\* raises MissingGreenlet.  An object the session itself constructed with
\* genres=... has its collection in memory and the replacement goes through.
UpsertOps == {"upsert_artist", "upsert_venue", "upsert_event"}
GenreLists == {<<>>, <<"Jazz">>, <<"Funk">>, <<"Jazz", "Blues">>}
StoredLinks == {{}, {"Jazz"}, {"Blues"}, {"Jazz", "Blues"}}
MissingGreenlet == "greenlet_spawn has not been called; can't call await_only() here"

\* set(genre_objects)
Supplied(h) == {h.genres[k] : k \in DOMAIN h.genres}

\* x.genres = genre_objects on the object of call h: the collection after
\* it, or the error.
SetGenres(h) ==
    IF h.loaded THEN [raised |-> FALSE, coll |-> Supplied(h), error |-> "none"]
    ELSE [raised |-> TRUE, coll |-> h.coll, error |-> MissingGreenlet]

\* Instance 1 holds a call of an upsert for an entity that exists: the
\* genres it is associated with, whether this session constructed it (and so
\* holds its collection) or fetched it, and the genres the call supplies.
InitGenres ==
    /\ mode = "links"
    /\ now = 0
    /\ db = EmptyTables
    /\ nextId = 1
    /\ tx = [i \in Inst |-> NoSession]
    /\ faults = 0
    /\ fr = [i \in Inst |-> IdleFrame]
    /\ \E op \in UpsertOps, links \in StoredLinks, own \in BOOLEAN, g \in GenreLists :
         hs = [i \in Inst |->
                 [pc |-> IF i = 1 THEN "try" ELSE "off", op |-> op, was |-> links,
                  links |-> links, coll |-> links, loaded |-> own, genres |-> g,
                  error |-> "none"]]
    /\ hist = {}

\* The try block with the entity in hand: if genre_objects:
\* x.genres = genre_objects, and the return.
GenresAssign(i) ==
    /\ mode = "links"
    /\ hs[i].pc = "try"
    /\ LET set == SetGenres(hs[i])
       IN  hs' = [hs EXCEPT ![i] =
                    IF hs[i].genres = <<>> THEN [@ EXCEPT !.pc = "ret"]
                    ELSE IF set.raised THEN [@ EXCEPT !.pc = "except", !.error = set.error]
                    ELSE [@ EXCEPT !.pc = "ret", !.coll = set.coll]]
    /\ UNCHANGED <<mode, now, db, tx, nextId, faults, fr, hist>>

\* The except branch.  upsert_artist and upsert_venue select the entity and
\* assign the genres again; upsert_event selects the event by its href and
\* returns it.
GenresExcept(i) ==
    /\ mode = "links"
    /\ hs[i].pc = "except"
    /\ LET set == SetGenres(hs[i])
       IN  hs' = [hs EXCEPT ![i] =
                    IF hs[i].op = "upsert_event" THEN [@ EXCEPT !.pc = "ret"]
                    ELSE IF set.raised THEN [@ EXCEPT !.pc = "raised", !.error = set.error]
                    ELSE [@ EXCEPT !.pc = "ret", !.coll = set.coll]]
    /\ UNCHANGED <<mode, now, db, tx, nextId, faults, fr, hist>>

\* The batch's session ends: the commit flushes the collection to the
\* association table.
GenresCommit(i) ==
    /\ mode = "links"
    /\ hs[i].pc = "ret"
    /\ hs' = [hs EXCEPT ![i].pc = "committed", ![i].links = hs[i].coll]
    /\ UNCHANGED <<mode, now, db, tx, nextId, faults, fr, hist>>

\* The error leaves the batch and its session is rolled back.
GenresRollback(i) ==
    /\ mode = "links"
    /\ hs[i].pc = "raised"
    /\ hs' = [hs EXCEPT ![i].pc = "rolledback", ![i].coll = hs[i].was]
    /\ UNCHANGED <<mode, now, db, tx, nextId, faults, fr, hist>>

NextGenres ==
    \E i \in Inst :
        \/ GenresAssign(i)
        \/ GenresExcept(i)
        \/ GenresCommit(i)
        \/ GenresRollback(i)

SpecGenres == InitGenres /\ [][NextGenres]_vars

\* --------------------------------------------------------------------------
\* Properties of the genre associations
\* --------------------------------------------------------------------------

\* C35: after upsert_artist, upsert_venue or upsert_event was given a
\* non-empty genre list for an entity that exists, the entity's genre
\* associations are exactly the supplied list; after an empty list they
\* are unchanged.
C35_GenresReplaced ==
    \A i \in Inst :
        (mode = "links" /\ hs[i].pc \in {"committed", "rolledback"}) =>
            IF hs[i].genres = <<>> THEN hs[i].links = hs[i].was
            ELSE hs[i].links = Supplied(hs[i])

====
